---- MODULE Spec2Model ----
(***************************************************************************)
(* MCC classifier evaluation tool: the three classification strategies     *)
(* (RafaAgent, MatheusAgent, WakiAgent), their fallback classifiers and    *)
(* reply parsers, and the evaluation harness (MCCEvaluator).               *)
(*                                                                         *)
(* Conventions.  Confidences are kept in hundredths (0.7 is 70, 1.0 is     *)
(* 100).  Python's None is the string None, a key that is missing from a   *)
(* dict is Absent, and dict.get(k, d) is Get(r, k, d).  Python dicts keep  *)
(* insertion order, so a dict that the code iterates is a sequence.        *)
(***************************************************************************)
EXTENDS Integers, Sequences, FiniteSets, TLC

VARIABLES
  agent,              \* the strategy whose classify() is running
  merchant_name,      \* classify(merchant_name, legal_name, **merchant_data)
  legal_name,
  original_mcc_code,  \* merchant_data['original_mcc_code'], or Absent
  mcc_description,    \* merchant_data['mcc_description'], or Absent
  client,             \* OPENAI_AVAILABLE and self.client is not None
  pc,                 \* position inside classify()
  tier1_result,       \* MatheusAgent.classify locals
  risk_tier_result,
  tier3_result,
  final_result,       \* the value classify() returns
  service_calls,      \* the requests sent to the text-generation service
  tier_log,           \* the tiers run so far, with what each one reported
  parse_text,         \* the response_text a reply parser is called with
  parse_result,       \* what the parser did with it
  parsed,             \* the decisions parsed earlier and written out again
  decisions,          \* the decisions of the runs of classify made so far
  csv_file,           \* the file at input_file
  pass_full_data,     \* evaluate(input_file, output_file, pass_full_data)
  input_data,         \* MCCEvaluator.evaluate locals
  eval_pc,            \* position inside evaluate()
  merchant_index,     \* position of "for merchant in input_data"
  agent_index,        \* position of "for agent in self.agents"
  output_row,
  output_data,
  metrics,
  classify_calls,     \* the calls of classify made so far
  performance_metrics, \* the value evaluate() returns
  output_file,        \* the rows written to output_file
  eval_error,         \* the exception evaluate() raised
  created,            \* the calls of AgentFactory.create_agent made so far
  mcc_list_csv,       \* the file mcc_list.csv next to matheus_agent.py
  mcc_tables,         \* MatheusAgent's mcc_data and mcc_risk_levels
  mcc_lists,          \* what _prepare_mcc_data returned
  alternatives_for,   \* the arguments of a call of generate_alternative_mccs
  generated_mccs      \* what that call returned

classify_vars ==
  <<agent, merchant_name, legal_name, original_mcc_code, mcc_description,
    client, pc, tier1_result, risk_tier_result, tier3_result, final_result,
    service_calls, tier_log>>

parse_vars == <<parse_text, parse_result, parsed>>

repeat_vars == <<decisions>>

eval_vars ==
  <<csv_file, pass_full_data, input_data, eval_pc, merchant_index,
    agent_index, output_row, output_data, metrics, classify_calls,
    performance_metrics, output_file, eval_error>>

factory_vars == <<created>>

matheus_vars ==
  <<mcc_list_csv, mcc_tables, mcc_lists, alternatives_for, generated_mccs>>

vars ==
  <<classify_vars, parse_vars, repeat_vars, eval_vars, factory_vars,
    matheus_vars>>

-----------------------------------------------------------------------------
(* Python values *)

None == "None"
Absent == "<absent>"
Unset == [unset |-> TRUE]

Get(r, k, d) == IF k \in DOMAIN r THEN r[k] ELSE d

Min(a, b) == IF a <= b THEN a ELSE b
Max(a, b) == IF a >= b THEN a ELSE b

\* bool(s) of a str
Truthy(s) == s # "" /\ s # None /\ s # Absent

\* s.strip() == "" for the names of the model
IsBlank(s) == s \in {"", "   "}

-----------------------------------------------------------------------------
(* Code tables *)

DefaultMccData ==
  <<
  [mcc |-> "0780", description |-> "Landscaping & Lawn Care",
     keywords |-> <<"landscaping", "&", "lawn", "care">>],
  [mcc |-> "1520", description |-> "General Contractors",
     keywords |-> <<"general", "contractors">>],
  [mcc |-> "1711", description |-> "HVAC & Plumbing",
     keywords |-> <<"hvac", "&", "plumbing">>],
  [mcc |-> "1731", description |-> "Electrical",
     keywords |-> <<"electrical">>],
  [mcc |-> "1740", description |-> "Masonry & Tile",
     keywords |-> <<"masonry", "&", "tile">>],
  [mcc |-> "1750", description |-> "Carpentry",
     keywords |-> <<"carpentry">>],
  [mcc |-> "1761", description |-> "Roofing & Siding",
     keywords |-> <<"roofing", "&", "siding">>],
  [mcc |-> "1771", description |-> "Concrete",
     keywords |-> <<"concrete">>],
  [mcc |-> "1799", description |-> "Special Trade",
     keywords |-> <<"special", "trade">>],
  [mcc |-> "4789", description |-> "Transportation",
     keywords |-> <<"transportation">>],
  [mcc |-> "5211", description |-> "Building Materials",
     keywords |-> <<"building", "materials">>],
  [mcc |-> "5251", description |-> "Hardware",
     keywords |-> <<"hardware">>],
  [mcc |-> "5311", description |-> "Department Stores",
     keywords |-> <<"department", "stores">>],
  [mcc |-> "5399", description |-> "Other Retail",
     keywords |-> <<"other", "retail">>],
  [mcc |-> "5411", description |-> "Grocery Stores, Supermarkets",
     keywords |-> <<"grocery", "stores,", "supermarkets">>],
  [mcc |-> "5499", description |-> "Food & Convenience",
     keywords |-> <<"food", "&", "convenience">>],
  [mcc |-> "5533", description |-> "Auto Parts",
     keywords |-> <<"auto", "parts">>],
  [mcc |-> "5541", description |-> "Gas & Fuel",
     keywords |-> <<"gas", "&", "fuel">>],
  [mcc |-> "5651", description |-> "Apparel",
     keywords |-> <<"apparel">>],
  [mcc |-> "5661", description |-> "Footwear",
     keywords |-> <<"footwear">>],
  [mcc |-> "5699", description |-> "Clothing & Accessories",
     keywords |-> <<"clothing", "&", "accessories">>],
  [mcc |-> "5812", description |-> "Restaurants",
     keywords |-> <<"restaurants">>],
  [mcc |-> "5814", description |-> "Fast Food",
     keywords |-> <<"fast", "food">>],
  [mcc |-> "5940", description |-> "Bike Shops",
     keywords |-> <<"bike", "shops">>],
  [mcc |-> "5941", description |-> "Sporting Goods",
     keywords |-> <<"sporting", "goods">>],
  [mcc |-> "5942", description |-> "Bookstores",
     keywords |-> <<"bookstores">>],
  [mcc |-> "5943", description |-> "Office & Stationery",
     keywords |-> <<"office", "&", "stationery">>],
  [mcc |-> "5945", description |-> "Hobbies & Toys",
     keywords |-> <<"hobbies", "&", "toys">>],
  [mcc |-> "5947", description |-> "Gifts & Souvenirs",
     keywords |-> <<"gifts", "&", "souvenirs">>],
  [mcc |-> "5970", description |-> "Arts & Crafts",
     keywords |-> <<"arts", "&", "crafts">>],
  [mcc |-> "5977", description |-> "Cosmetics",
     keywords |-> <<"cosmetics">>],
  [mcc |-> "5992", description |-> "Florists",
     keywords |-> <<"florists">>],
  [mcc |-> "5995", description |-> "Pet Supplies",
     keywords |-> <<"pet", "supplies">>],
  [mcc |-> "7011", description |-> "Hotels & Lodging",
     keywords |-> <<"hotels", "&", "lodging">>],
  [mcc |-> "7210", description |-> "Laundry & Cleaning",
     keywords |-> <<"laundry", "&", "cleaning">>],
  [mcc |-> "7211", description |-> "Laundry Services-Family and Commercial",
     keywords |-> <<"laundry", "services-family", "and", "commercial">>],
  [mcc |-> "7216", description |-> "Dry Cleaners",
     keywords |-> <<"dry", "cleaners">>],
  [mcc |-> "7221", description |-> "Photography",
     keywords |-> <<"photography">>],
  [mcc |-> "7230", description |-> "Salons & Barbers",
     keywords |-> <<"salons", "&", "barbers">>],
  [mcc |-> "7251", description |-> "Shoe Repair & Shine",
     keywords |-> <<"shoe", "repair", "&", "shine">>],
  [mcc |-> "7298", description |-> "Health and Beauty Spas",
     keywords |-> <<"health", "and", "beauty", "spas">>],
  [mcc |-> "7299", description |-> "Other Services",
     keywords |-> <<"other", "services">>],
  [mcc |-> "7399", description |-> "Other B2B Services",
     keywords |-> <<"other", "b2b", "services">>],
  [mcc |-> "7542", description |-> "Car Wash",
     keywords |-> <<"car", "wash">>],
  [mcc |-> "7549", description |-> "Towing",
     keywords |-> <<"towing">>],
  [mcc |-> "7699", description |-> "Repair Shops & Services",
     keywords |-> <<"repair", "shops", "&", "services">>],
  [mcc |-> "7997", description |-> "Country Clubs & Private Golf Courses",
     keywords |-> <<"country", "clubs", "&", "private", "golf", "courses">>],
  [mcc |-> "8099", description |-> "Medical & Health Services",
     keywords |-> <<"medical", "&", "health", "services">>],
  [mcc |-> "8299", description |-> "Educational Services",
     keywords |-> <<"educational", "services">>],
  [mcc |-> "5964", description |-> "Direct Marketing - Catalog Merchants",
     keywords |-> <<"direct", "marketing", "-", "catalog", "merchants">>],
  [mcc |-> "5732", description |-> "Electronics Stores",
     keywords |-> <<"electronics", "stores">>],
  [mcc |-> "5912", description |-> "Drug Stores and Pharmacies",
     keywords |-> <<"drug", "stores", "and", "pharmacies">>],
  [mcc |-> "5200", description |-> "Home Supply Warehouse Stores",
     keywords |-> <<"home", "supply", "warehouse", "stores">>]
  >>

WakiMccData ==
  <<
  [mcc |-> "5411", description |-> "Grocery Stores, Supermarkets"],
  [mcc |-> "5814", description |-> "Fast Food Restaurants"],
  [mcc |-> "5812", description |-> "Eating places and Restaurants"],
  [mcc |-> "5999", description |-> "Miscellaneous and Specialty Retail Stores"],
  [mcc |-> "7299", description |-> "Miscellaneous Personal Services"],
  [mcc |-> "5732", description |-> "Electronics Sales"],
  [mcc |-> "5045", description |-> "Computers, Computer Peripheral Equipment, Software"],
  [mcc |-> "5311", description |-> "Department Stores"],
  [mcc |-> "5200", description |-> "Home Supply Warehouse Stores"],
  [mcc |-> "5499", description |-> "Misc. Food Stores - Convenience Stores and Specialty Markets"],
  [mcc |-> "5651", description |-> "Family Clothing Stores"],
  [mcc |-> "8011", description |-> "Doctors and Physicians"],
  [mcc |-> "7230", description |-> "Barber and Beauty Shops"],
  [mcc |-> "7011", description |-> "Lodging - Hotels, Motels, Resorts"]
  >>

TableCodes(table) == {table[i].mcc : i \in 1..Len(table)}

\* self.mcc_data[code]
Lookup(table, code) ==
  LET i == CHOOSE j \in 1..Len(table) : table[j].mcc = code
  IN table[i].description

\* self.catch_all_mccs
catch_all_mccs == {"7299", "7399", "5399", "1799", "7999", "8999"}

\* the characters of a code string (str indexing, slicing and len)
Chars(s) ==
  CASE s = "" -> <<>>
  [] s = "0780" -> <<"0", "7", "8", "0">>
  [] s = "1520" -> <<"1", "5", "2", "0">>
  [] s = "1711" -> <<"1", "7", "1", "1">>
  [] s = "1731" -> <<"1", "7", "3", "1">>
  [] s = "1740" -> <<"1", "7", "4", "0">>
  [] s = "1750" -> <<"1", "7", "5", "0">>
  [] s = "1761" -> <<"1", "7", "6", "1">>
  [] s = "1771" -> <<"1", "7", "7", "1">>
  [] s = "1799" -> <<"1", "7", "9", "9">>
  [] s = "4789" -> <<"4", "7", "8", "9">>
  [] s = "5045" -> <<"5", "0", "4", "5">>
  [] s = "5200" -> <<"5", "2", "0", "0">>
  [] s = "5211" -> <<"5", "2", "1", "1">>
  [] s = "5251" -> <<"5", "2", "5", "1">>
  [] s = "5311" -> <<"5", "3", "1", "1">>
  [] s = "5399" -> <<"5", "3", "9", "9">>
  [] s = "5411" -> <<"5", "4", "1", "1">>
  [] s = "54115812" -> <<"5", "4", "1", "1", "5", "8", "1", "2">>
  [] s = "5499" -> <<"5", "4", "9", "9">>
  [] s = "5533" -> <<"5", "5", "3", "3">>
  [] s = "5541" -> <<"5", "5", "4", "1">>
  [] s = "5651" -> <<"5", "6", "5", "1">>
  [] s = "5661" -> <<"5", "6", "6", "1">>
  [] s = "5699" -> <<"5", "6", "9", "9">>
  [] s = "5712" -> <<"5", "7", "1", "2">>
  [] s = "5732" -> <<"5", "7", "3", "2">>
  [] s = "5812" -> <<"5", "8", "1", "2">>
  [] s = "5814" -> <<"5", "8", "1", "4">>
  [] s = "5912" -> <<"5", "9", "1", "2">>
  [] s = "5940" -> <<"5", "9", "4", "0">>
  [] s = "5941" -> <<"5", "9", "4", "1">>
  [] s = "5942" -> <<"5", "9", "4", "2">>
  [] s = "5943" -> <<"5", "9", "4", "3">>
  [] s = "5945" -> <<"5", "9", "4", "5">>
  [] s = "5947" -> <<"5", "9", "4", "7">>
  [] s = "5964" -> <<"5", "9", "6", "4">>
  [] s = "5970" -> <<"5", "9", "7", "0">>
  [] s = "5977" -> <<"5", "9", "7", "7">>
  [] s = "5992" -> <<"5", "9", "9", "2">>
  [] s = "5995" -> <<"5", "9", "9", "5">>
  [] s = "5999" -> <<"5", "9", "9", "9">>
  [] s = "6300" -> <<"6", "3", "0", "0">>
  [] s = "7011" -> <<"7", "0", "1", "1">>
  [] s = "7210" -> <<"7", "2", "1", "0">>
  [] s = "7211" -> <<"7", "2", "1", "1">>
  [] s = "7216" -> <<"7", "2", "1", "6">>
  [] s = "7221" -> <<"7", "2", "2", "1">>
  [] s = "7230" -> <<"7", "2", "3", "0">>
  [] s = "7251" -> <<"7", "2", "5", "1">>
  [] s = "7298" -> <<"7", "2", "9", "8">>
  [] s = "7299" -> <<"7", "2", "9", "9">>
  [] s = "7311" -> <<"7", "3", "1", "1">>
  [] s = "7349" -> <<"7", "3", "4", "9">>
  [] s = "7392" -> <<"7", "3", "9", "2">>
  [] s = "7399" -> <<"7", "3", "9", "9">>
  [] s = "7538" -> <<"7", "5", "3", "8">>
  [] s = "7542" -> <<"7", "5", "4", "2">>
  [] s = "7549" -> <<"7", "5", "4", "9">>
  [] s = "7699" -> <<"7", "6", "9", "9">>
  [] s = "7997" -> <<"7", "9", "9", "7">>
  [] s = "7999" -> <<"7", "9", "9", "9">>
  [] s = "8011" -> <<"8", "0", "1", "1">>
  [] s = "8021" -> <<"8", "0", "2", "1">>
  [] s = "8099" -> <<"8", "0", "9", "9">>
  [] s = "8111" -> <<"8", "1", "1", "1">>
  [] s = "8299" -> <<"8", "2", "9", "9">>
  [] s = "8931" -> <<"8", "9", "3", "1">>
  [] s = "8999" -> <<"8", "9", "9", "9">>
  [] s = "9999" -> <<"9", "9", "9", "9">>

-----------------------------------------------------------------------------
(* Inputs of classify() *)

DescriptionWordsIn(s) ==
  CASE s = "" -> {}
  [] s = "   " -> {}
  [] s = "City Grocery" -> {"grocery"}
  [] s = "Joe Smith" -> {}
  [] s = "Laundry Services" -> {"dry", "laundry", "services"}
  [] s = "Auto Parts Center" -> {"arts", "auto", "parts"}
  [] s = "Supermarkets Plus" -> {"supermarkets"}
  [] s = "Pet Food Market" -> {"food", "pet"}
  [] s = "Pizzaria" -> {}
  [] s = "Smith Restaurants" -> {"restaurants"}
  [] OTHER -> {}

\* keyword in text, for a description keyword and a lowercased name
Contains(text, keyword) == keyword \in DescriptionWordsIn(text)

\* variant: the default code whatever merchant_data holds
MccIgnoringPrior == "5812"

\* merchant_data.get('original_mcc_code', "5812") in MatheusAgent.classify
Mcc == IF original_mcc_code = Absent THEN "5812" ELSE original_mcc_code

\* merchant_data.get('mcc_description', "Eating Places, Restaurants")
MccDescription ==
  IF mcc_description = Absent THEN "Eating Places, Restaurants"
  ELSE mcc_description

-----------------------------------------------------------------------------
(* Keyword scoring shared by RafaAgent and MatheusAgent *)

RECURSIVE CountMatches(_, _, _)
\* sum(1 for keyword in keywords if len(keyword) > 3 and keyword in text)
CountMatches(keywords, texts, i) ==
  IF i > Len(keywords) THEN 0
  ELSE (IF Len(keywords[i]) > 3 /\ \E t \in texts : Contains(t, keywords[i])
        THEN 1 ELSE 0) + CountMatches(keywords, texts, i + 1)

Score(entry, texts) == CountMatches(entry.keywords, texts, 1)

RECURSIVE ScoredFrom(_, _, _)
\* mcc_scores: the entries with score > 0, in table order
ScoredFrom(table, texts, i) ==
  IF i > Len(table) THEN <<>>
  ELSE LET s == Score(table[i], texts)
       IN (IF s > 0
           THEN <<[mcc |-> table[i].mcc, description |-> table[i].description,
                   score |-> s]>>
           ELSE <<>>) \o ScoredFrom(table, texts, i + 1)

MccScores(table, texts) == ScoredFrom(table, texts, 1)

\* the largest x.score of a non-empty sequence
MaxScore(cands) ==
  LET S == {cands[i].score : i \in 1..Len(cands)}
  IN CHOOSE m \in S : \A s \in S : s <= m

\* variant: the first maximal item on a first run, the last one on a repeat
MaxIndexByRun(cands) ==
  IF decisions = <<>>
  THEN CHOOSE i \in 1..Len(cands) :
         /\ cands[i].score = MaxScore(cands)
         /\ \A j \in 1..(i - 1) : cands[j].score < MaxScore(cands)
  ELSE CHOOSE i \in 1..Len(cands) :
         /\ cands[i].score = MaxScore(cands)
         /\ \A j \in (i + 1)..Len(cands) : cands[j].score < MaxScore(cands)

\* max(items, key=score): Python returns the first maximal item
FirstMaxIndex(cands) ==
  CHOOSE i \in 1..Len(cands) :
    /\ cands[i].score = MaxScore(cands)
    /\ \A j \in 1..(i - 1) : cands[j].score < MaxScore(cands)

RemoveAt(s, i) == SubSeq(s, 1, i - 1) \o SubSeq(s, i + 1, Len(s))

RECURSIVE SortByScoreDesc(_)
\* list.sort(key=score, reverse=True) and sorted(..., reverse=True) are stable
SortByScoreDesc(cands) ==
  IF cands = <<>> THEN <<>>
  ELSE LET i == FirstMaxIndex(cands)
       IN <<cands[i]>> \o SortByScoreDesc(RemoveAt(cands, i))

Take(s, n) == SubSeq(s, 1, Min(n, Len(s)))

RECURSIVE JoinSpace(_)
\* " ".join(analysis)
JoinSpace(s) ==
  IF s = <<>> THEN ""
  ELSE IF Len(s) = 1 THEN s[1]
  ELSE s[1] \o " " \o JoinSpace(Tail(s))

-----------------------------------------------------------------------------
(* MatheusAgent *)

\* the names classify() is called with
MerchantNames ==
  {"", "   ", "City Grocery", "Joe Smith", "Laundry Services", "Pet Food Market"}
LegalNames == {None, "Smith Restaurants"}

\* the names the keyword loop is run on
ScoredNames ==
  MerchantNames
  \cup {"Smith Restaurants", "Supermarkets Plus", "Auto Parts Center"}

\* the keyword scores of each name over self.mcc_data (the loop both
\* _fallback_classify and generate_alternative_mccs run)
NameScores == [n \in ScoredNames |-> MccScores(DefaultMccData, {n})]

\* the keyword scores of merchant_name.lower() + " " + legal_name.lower()
\* ('' for a legal name that is None or empty): a keyword holds no blank, so
\* it occurs in the combined text when it occurs in one of the two names
CombinedScores ==
  [n \in MerchantNames, l \in LegalNames |->
     MccScores(DefaultMccData, {n, IF Truthy(l) THEN l ELSE ""})]

\* MatheusAgent._determine_industry
MatheusDetermineIndustry(mcc) ==
  IF ~Truthy(mcc) \/ Len(Chars(mcc)) < 2 THEN "Unknown"
  ELSE LET c == Chars(mcc)[1]
       IN CASE c = "5" -> "Retail/Merchants"
            [] c = "7" -> "Services"
            [] c = "8" -> "Professional Services/Healthcare"
            [] c = "4" -> "Transportation/Utilities"
            [] c = "6" -> "Financial Services"
            [] c = "9" -> "Government Services"
            [] OTHER -> "Other Business Categories"

\* MatheusAgent._fallback_classify(merchant_name, legal_name, **merchant_data);
\* original_mcc and original_mcc_desc are Absent when merchant_data lacks them
MatheusFallbackClassify(name, original_mcc, original_mcc_desc) ==
  LET scores == NameScores[name]
  IN IF Truthy(original_mcc) /\ original_mcc \in TableCodes(DefaultMccData)
     THEN [suggested_mcc |-> original_mcc,
           mcc_suggestion_description |->
             IF Truthy(original_mcc_desc) THEN original_mcc_desc
             ELSE Lookup(DefaultMccData, original_mcc),
           confidence |-> 60,
           analysis |-> <<"Using provided MCC code as fallback classification.">>,
           suspicious_classification |-> FALSE,
           is_non_descriptive |-> FALSE,
           may_be_high_risk |-> FALSE,
           requires_full_search |-> FALSE]
     ELSE IF scores = <<>>
     THEN [suggested_mcc |-> "5812",
           mcc_suggestion_description |-> "Eating Places, Restaurants",
           confidence |-> 50,
           analysis |-> <<"No clear business category identified from name. Using common restaurant category.">>,
           suspicious_classification |-> FALSE,
           is_non_descriptive |-> TRUE,
           may_be_high_risk |-> FALSE,
           requires_full_search |-> TRUE]
     ELSE LET top == scores[FirstMaxIndex(scores)]
          IN [suggested_mcc |-> top.mcc,
              mcc_suggestion_description |-> top.description,
              confidence |-> Min(85, 50 + top.score * 10),
              analysis |-> <<"Based on keywords in the business name, classified as "
                             \o top.description \o ".">>,
              suspicious_classification |-> FALSE,
              is_non_descriptive |-> FALSE,
              may_be_high_risk |-> FALSE,
              requires_full_search |-> FALSE]

\* What the structured replies of the service may hold
ReplyCodes == {"5411", "7299"}
ReplyConfidences == {50, 70, 98, 150}
ServiceDescription == "Description given by the service"
ServiceAnalysis == <<"Analysis given by the service.">>

\* Tier1Result, as _classify_tier1 copies it into a dict
Tier1Replies ==
  {[suggested_mcc |-> c, mcc_suggestion_description |-> ServiceDescription,
    analysis |-> ServiceAnalysis, confidence |-> k,
    requires_full_search |-> f, is_non_descriptive |-> n,
    may_be_high_risk |-> h, suspicious_classification |-> s] :
     c \in ReplyCodes, k \in ReplyConfidences,
     f \in BOOLEAN, n \in BOOLEAN, h \in BOOLEAN, s \in BOOLEAN}

RiskLevels == {"approved", "prohibited"}

\* RiskTierResult, as _classify_risk_tier copies it into a dict
RiskTierReplies ==
  {[suggested_mcc |-> c, mcc_suggestion_description |-> ServiceDescription,
    analysis |-> ServiceAnalysis, confidence |-> k, risk_level |-> l,
    requires_full_search |-> f, suspicious_classification |-> s] :
     c \in ReplyCodes, k \in ReplyConfidences \ {150}, l \in RiskLevels,
     f \in BOOLEAN, s \in BOOLEAN}

\* MCCClassification, as _classify_tier3 copies it into a dict
Tier3Replies(suspicious_classification_flag) ==
  {[suggested_mcc |-> c, mcc_suggestion_description |-> ServiceDescription,
    analysis |-> ServiceAnalysis, confidence |-> k,
    suspicious_classification |-> (s \/ suspicious_classification_flag)] :
     c \in ReplyCodes, k \in {50, 98}, s \in BOOLEAN}

\* One run of a tier: the dict it returns, whether the service was called and
\* whether that call (or the handling of its reply) raised
Outcome(result, called, raised) ==
  [result |-> result, called |-> called, raised |-> raised]

\* variant: a raise in the first tier is answered with an error dict, not
\* with the fallback's result
ClassifyTier1Unhandled ==
  IF ~client
  THEN {Outcome(MatheusFallbackClassify(merchant_name, original_mcc_code,
                                        mcc_description),
                FALSE, FALSE)}
  ELSE {Outcome(r, TRUE, FALSE) : r \in Tier1Replies}
       \cup {Outcome([error |-> "Error in tier1 classification"], TRUE, TRUE)}

\* MatheusAgent._classify_tier1
ClassifyTier1 ==
  IF ~client
  THEN {Outcome(MatheusFallbackClassify(merchant_name, original_mcc_code,
                                        mcc_description),
                FALSE, FALSE)}
  ELSE {Outcome(r, TRUE, FALSE) : r \in Tier1Replies}
       \cup {Outcome(MatheusFallbackClassify(merchant_name, Absent, Absent),
                     TRUE, TRUE)}

\* MatheusAgent._classify_risk_tier
ClassifyRiskTier ==
  IF ~client
  THEN {Outcome(MatheusFallbackClassify(merchant_name, original_mcc_code,
                                        mcc_description),
                FALSE, FALSE)}
  ELSE {Outcome(r, TRUE, FALSE) : r \in RiskTierReplies}
       \cup {Outcome(MatheusFallbackClassify(merchant_name, original_mcc_code,
                                        mcc_description),
                     TRUE, TRUE)}

\* MatheusAgent._classify_tier3
ClassifyTier3(suspicious_flag) ==
  IF ~client
  THEN {Outcome(MatheusFallbackClassify(merchant_name, original_mcc_code,
                                        mcc_description),
                FALSE, FALSE)}
  ELSE {Outcome(r, TRUE, FALSE) : r \in Tier3Replies(suspicious_flag)}
       \cup {Outcome(MatheusFallbackClassify(merchant_name, original_mcc_code,
                                        mcc_description),
                     TRUE, TRUE)}

CatchAllNote ==
  "Suggested MCC is a general catch-all category. Attempting to find a more specific classification."

\* variant: the tier's result is left as the tier reported it
CatchAllOverrideSkipped(result) == result

\* the catch-all override of classify
CatchAllOverride(result) ==
  IF /\ Get(result, "suggested_mcc", None) \in catch_all_mccs
     /\ Get(result, "confidence", 0) < 98
  THEN [k \in DOMAIN result \cup {"requires_full_search"} |->
          IF k = "requires_full_search" THEN TRUE
          ELSE IF k = "analysis" THEN Append(result.analysis, CatchAllNote)
          ELSE result[k]]
  ELSE result

\* variant: the acceptance test does not read may_be_high_risk
AcceptTier1IgnoringRisk(result) ==
  /\ Get(result, "confidence", 0) >= 70
  /\ ~Get(result, "requires_full_search", FALSE)

\* the acceptance test on the first tier's result
AcceptTier1(result) ==
  /\ Get(result, "confidence", 0) >= 70
  /\ ~Get(result, "requires_full_search", FALSE)
  /\ ~Get(result, "may_be_high_risk", FALSE)

\* variant: the acceptance test on the risk tier's result reads the
\* confidence alone
AcceptRiskTierOnConfidence(result) ==
  Get(result, "confidence", 0) >= 70

\* the acceptance test on the risk tier's result
AcceptRiskTier(result) ==
  /\ ~Get(result, "requires_full_search", FALSE)
  /\ Get(result, "confidence", 0) >= 70

\* self.mcc_risk_levels of the built-in table
mcc_risk_levels ==
  [c \in {"5933", "7995", "5993", "7273"} |-> "prohibited"]
  @@ [c \in {"7841", "5816"} |-> "restricted"]
  @@ [c \in {"default"} |-> "approved"]

\* self.mcc_risk_levels.get(mcc, self.mcc_risk_levels["default"])
TableRiskLevel(mcc) ==
  IF mcc \in DOMAIN mcc_risk_levels THEN mcc_risk_levels[mcc]
  ELSE mcc_risk_levels["default"]

RiskBanner(level) ==
  IF level = "prohibited" THEN "ATTENTION: Business classified as PROHIBITED"
  ELSE "ATTENTION: Business classified as " \o level

\* MatheusAgent.generate_alternative_mccs
GenerateAlternativeMccs(primary_mcc, name) ==
  LET matches == NameScores[name]
      keep == SelectSeq(matches, LAMBDA m : m.mcc # primary_mcc)
      generic ==
        (IF primary_mcc # "5812"
         THEN <<[mcc |-> "5812", description |-> "Eating Places, Restaurants", score |-> 0]>>
         ELSE <<>>)
        \o (IF primary_mcc # "5399"
            THEN <<[mcc |-> "5399", description |-> "Other Retail", score |-> 0]>>
            ELSE <<>>)
        \o (IF primary_mcc # "7399"
            THEN <<[mcc |-> "7399", description |-> "Other B2B Services", score |-> 0]>>
            ELSE <<>>)
      candidates == IF Len(keep) < 2 THEN keep \o generic ELSE keep
      top == Take(SortByScoreDesc(candidates), 2)
  IN [i \in 1..Len(top) |->
        [mcc_code |-> top[i].mcc,
         mcc_description |-> top[i].description,
         confidence |-> 30 + Min(40, top[i].score * 10)]]

\* the post-processing at the end of classify
MatheusFinish(result) ==
  [mcc_code |-> result.mcc_code,
   mcc_description |-> result.mcc_description,
   confidence |-> result.confidence,
   analysis |-> result.analysis,
   suspicious_classification |-> result.suspicious_classification,
   alternative_mccs |->
     GenerateAlternativeMccs(result.mcc_code, merchant_name),
   mcc_changed |-> (result.mcc_code # Mcc),
   industry_classification |-> MatheusDetermineIndustry(result.mcc_code),
   reasoning |-> IF result.analysis # <<>> THEN JoinSpace(result.analysis)
                 ELSE "Classification based on merchant name analysis"]

\* the fixed decision classify returns for a blank name
MatheusDefault ==
  [mcc_code |-> "5812",
   mcc_description |-> "Eating Places, Restaurants",
   confidence |-> 50,
   alternative_mccs |->
     <<[mcc_code |-> "5399", mcc_description |-> "Other Retail", confidence |-> 30],
       [mcc_code |-> "7399", mcc_description |-> "Other B2B Services", confidence |-> 20]>>,
   industry_classification |-> "Restaurants",
   analysis |-> <<"No merchant name provided.">>,
   reasoning |-> "Default classification due to missing merchant name."]

\* the dict built from an accepted tier result
FromTier(result, analysis, suspicious) ==
  [mcc_code |-> Get(result, "suggested_mcc", None),
   mcc_description |-> Get(result, "mcc_suggestion_description", None),
   confidence |-> Get(result, "confidence", None),
   analysis |-> analysis,
   suspicious_classification |-> suspicious]

Logged(tier, o) ==
  [tier |-> tier, called |-> o.called, raised |-> o.raised, reported |-> o.result]

\* the may_be_high_risk argument of the call of _classify_risk_tier
HighRiskPassed(result) == Get(result, "may_be_high_risk", FALSE)

\* a run of the risk tier, with the may_be_high_risk argument it was given
LoggedRisk(o, may_be_high_risk) ==
  [tier |-> "TIER_RISK", called |-> o.called, raised |-> o.raised,
   reported |-> o.result, may_be_high_risk |-> may_be_high_risk]

Calls(tier, o) ==
  IF o.called THEN Append(service_calls, tier) ELSE service_calls

\* classify, blank name
MatheusEmptyName ==
  /\ agent = "Matheus" /\ pc = "start"
  /\ IsBlank(merchant_name)
  /\ final_result' = MatheusDefault
  /\ pc' = "done"
  /\ UNCHANGED <<agent, merchant_name, legal_name, original_mcc_code,
                 mcc_description, client,
                 tier1_result, risk_tier_result, tier3_result, service_calls,
                 tier_log>>
  /\ UNCHANGED <<parse_vars, repeat_vars, eval_vars, factory_vars,
                 matheus_vars>>

\* classify when merchant_data holds the key mcc_description: the call
\* _classify_tier1(..., mcc_description, limited_mcc_list, **merchant_data)
\* binds the parameter mcc_description twice and raises TypeError
MatheusTypeError ==
  /\ agent = "Matheus" /\ pc = "start"
  /\ ~IsBlank(merchant_name)
  /\ mcc_description # Absent
  /\ pc' = "raised"
  /\ UNCHANGED <<agent, merchant_name, legal_name, original_mcc_code,
                 mcc_description, client,
                 tier1_result, risk_tier_result, tier3_result, final_result,
                 service_calls, tier_log>>
  /\ UNCHANGED <<parse_vars, repeat_vars, eval_vars, factory_vars,
                 matheus_vars>>

\* classify from the first tier to its acceptance test
MatheusTier1 ==
  /\ agent = "Matheus" /\ pc = "start"
  /\ ~IsBlank(merchant_name)
  /\ mcc_description = Absent
  /\ \E o \in ClassifyTier1 :
       /\ service_calls' = Calls("TIER_1", o)
       /\ tier_log' = Append(tier_log, Logged("TIER_1", o))
       /\ IF Get(o.result, "is_non_descriptive", FALSE)
          THEN /\ tier1_result' = o.result
               /\ final_result' =
                    MatheusFinish(
                      [mcc_code |-> Mcc,
                       mcc_description |-> MccDescription,
                       confidence |-> 100,
                       analysis |-> <<"NON-DESCRIPTIVE NAME MCC ACCEPTED">>
                                      \o Get(o.result, "analysis", <<>>),
                       suspicious_classification |-> FALSE])
               /\ pc' = "done"
          ELSE LET t1 == CatchAllOverride(o.result)
               IN /\ tier1_result' = t1
                  /\ IF AcceptTier1(t1)
                     THEN /\ final_result' =
                               MatheusFinish(
                                 FromTier(t1, Get(t1, "analysis", <<>>),
                                   Get(t1, "suspicious_classification", FALSE)))
                          /\ pc' = "done"
                     ELSE /\ final_result' = final_result
                          /\ pc' = "TIER_RISK"
  /\ UNCHANGED <<agent, merchant_name, legal_name, original_mcc_code,
                 mcc_description, client,
                 risk_tier_result, tier3_result>>
  /\ UNCHANGED <<parse_vars, repeat_vars, eval_vars, factory_vars,
                 matheus_vars>>

\* classify from the risk tier to its acceptance test
MatheusTierRisk ==
  /\ agent = "Matheus" /\ pc = "TIER_RISK"
  /\ \E o \in ClassifyRiskTier :
       LET rt == CatchAllOverride(o.result)
           level == Get(rt, "risk_level", "approved")
           analysis == IF level # "approved"
                       THEN <<RiskBanner(level)>> \o Get(rt, "analysis", <<>>)
                       ELSE Get(rt, "analysis", <<>>)
           suspicious == Get(rt, "suspicious_classification", FALSE)
                         \/ Get(tier1_result, "suspicious_classification", FALSE)
       IN /\ service_calls' = Calls("TIER_RISK", o)
          /\ tier_log' = Append(tier_log,
                                 LoggedRisk(o, HighRiskPassed(tier1_result)))
          /\ risk_tier_result' = rt
          /\ IF AcceptRiskTier(rt)
             THEN /\ final_result' = MatheusFinish(FromTier(rt, analysis, suspicious))
                  /\ pc' = "done"
             ELSE /\ final_result' = final_result
                  /\ pc' = "TIER_FULL"
  /\ UNCHANGED <<agent, merchant_name, legal_name, original_mcc_code,
                 mcc_description, client,
                 tier1_result, tier3_result>>
  /\ UNCHANGED <<parse_vars, repeat_vars, eval_vars, factory_vars,
                 matheus_vars>>

\* classify from the full tier to the end
MatheusTierFull ==
  /\ agent = "Matheus" /\ pc = "TIER_FULL"
  /\ LET suspicious_flag ==
           Get(tier1_result, "suspicious_classification", FALSE)
           \/ Get(risk_tier_result, "suspicious_classification", FALSE)
     IN \E o \in ClassifyTier3(suspicious_flag) :
          /\ service_calls' = Calls("TIER_FULL", o)
          /\ tier_log' = Append(tier_log, Logged("TIER_FULL", o))
          /\ tier3_result' = o.result
          /\ final_result' =
               MatheusFinish(
                 FromTier(o.result, Get(o.result, "analysis", <<>>),
                   Get(o.result, "suspicious_classification", FALSE)))
          /\ pc' = "done"
  /\ UNCHANGED <<agent, merchant_name, legal_name, original_mcc_code,
                 mcc_description, client,
                 tier1_result, risk_tier_result>>
  /\ UNCHANGED <<parse_vars, repeat_vars, eval_vars, factory_vars,
                 matheus_vars>>

-----------------------------------------------------------------------------
(* Reply texts *)

\* response.choices[0].message.content when the reply carries no text
NoneReply == [none |-> TRUE]

\* line.strip()
Strip(line) ==
  CASE line = "  2. Suggested MCC: 5812" -> "2. Suggested MCC: 5812"
  [] line = "  lorem ipsum dolor" -> "lorem ipsum dolor"
  [] line = " 5411" -> "5411"
  [] OTHER -> line

\* a reply text, as the lines between its newlines
Text(lines) == [lines |-> lines]

\* the texts of at most n lines over a set of lines
Texts(lines, n) == {Text(t) : t \in UNION {[1..k -> lines] : k \in 1..n}}

RECURSIVE DropLeadingBlank(_)
DropLeadingBlank(lines) ==
  IF lines # <<>> /\ Head(lines) = "" THEN DropLeadingBlank(Tail(lines))
  ELSE lines

RECURSIVE DropTrailingBlank(_)
DropTrailingBlank(lines) ==
  IF lines # <<>> /\ lines[Len(lines)] = ""
  THEN DropTrailingBlank(SubSeq(lines, 1, Len(lines) - 1))
  ELSE lines

\* response_text.strip().split('\n'): the blank lines at both ends go, and
\* the blanks that start the first line (no line of the model ends with one)
StripSplit(lines) ==
  LET core == DropTrailingBlank(DropLeadingBlank(lines))
  IN IF core = <<>> THEN <<"">> ELSE <<Strip(core[1])>> \o Tail(core)

-----------------------------------------------------------------------------
(* RafaAgent *)

RafaLines ==
  {"",
   "1. Analysis: The name clearly indicates a grocery store.",
   "1. Analysis: The business type is ambiguous.",
   "1. Analysis: Matches the current category.",
   "2. Suggested MCC: 5411",
   "2. Suggested MCC: Same",
   "2. Suggested MCC: 5411 or 5812",
   "2. Suggested MCC: 7299",
   "2. Suggested MCC: N/A",
   "3. Suggested Description: Grocery Stores, Supermarkets",
   "lorem ipsum dolor",
   "  2. Suggested MCC: 5812"}

\* the header the line starts with (line.startswith), or None
LinePrefix(line) ==
  CASE line = "1. Analysis: The name clearly indicates a grocery store." -> "1. Analysis:"
  [] line = "1. Analysis: The business type is ambiguous." -> "1. Analysis:"
  [] line = "1. Analysis: Matches the current category." -> "1. Analysis:"
  [] line = "2. Suggested MCC: 5411" -> "2. Suggested MCC:"
  [] line = "2. Suggested MCC: Same" -> "2. Suggested MCC:"
  [] line = "2. Suggested MCC: 5411 or 5812" -> "2. Suggested MCC:"
  [] line = "2. Suggested MCC: 7299" -> "2. Suggested MCC:"
  [] line = "2. Suggested MCC: N/A" -> "2. Suggested MCC:"
  [] line = "3. Suggested Description: Grocery Stores, Supermarkets" -> "3. Suggested Description:"
  [] line = "2. Suggested MCC: 5812" -> "2. Suggested MCC:"
  [] OTHER -> None

\* line.replace(header, "").strip()
WithoutPrefix(line) ==
  CASE line = "1. Analysis: The name clearly indicates a grocery store." -> "The name clearly indicates a grocery store."
  [] line = "1. Analysis: The business type is ambiguous." -> "The business type is ambiguous."
  [] line = "1. Analysis: Matches the current category." -> "Matches the current category."
  [] line = "2. Suggested MCC: 5411" -> "5411"
  [] line = "2. Suggested MCC: Same" -> "Same"
  [] line = "2. Suggested MCC: 5411 or 5812" -> "5411 or 5812"
  [] line = "2. Suggested MCC: 7299" -> "7299"
  [] line = "2. Suggested MCC: N/A" -> "N/A"
  [] line = "3. Suggested Description: Grocery Stores, Supermarkets" -> "Grocery Stores, Supermarkets"
  [] line = "2. Suggested MCC: 5812" -> "5812"

\* re.sub(r'[^0-9]', '', s)
DigitsOnly(s) ==
  CASE s = "" -> ""
  [] s = "5411" -> "5411"
  [] s = "5411 or 5812" -> "54115812"
  [] s = "5812" -> "5812"
  [] s = "7299" -> "7299"
  [] s = "N/A" -> ""
  [] s = "Same" -> ""

\* s.lower() == "same"
IsSame(s) == s \in {"Same"}

\* which of "unclear", "ambiguous", "strongly", "clearly" occur in s.lower()
AnalysisWords(s) ==
  CASE s = "" -> {}
  [] s = "Matches the current category." -> {}
  [] s = "The business type is ambiguous." -> {"ambiguous"}
  [] s = "The name clearly indicates a grocery store." -> {"clearly"}
  [] s = "Unable to determine specific MCC from business name." -> {}
  [] s = "Error analyzing merchant: 'NoneType' object has no attribute 'strip'" -> {}

RECURSIVE RafaScanLines(_, _, _)
\* the loop over the lines in _parse_openai_response
RafaScanLines(lines, i, st) ==
  IF i > Len(lines) THEN st
  ELSE LET line == Strip(lines[i])
           next ==
             IF LinePrefix(line) = "1. Analysis:"
             THEN [st EXCEPT !.analysis = WithoutPrefix(line)]
             ELSE IF LinePrefix(line) = "2. Suggested MCC:"
             THEN [st EXCEPT !.suggested_mcc = WithoutPrefix(line)]
             ELSE IF LinePrefix(line) = "3. Suggested Description:"
             THEN [st EXCEPT !.suggested_description = WithoutPrefix(line)]
             ELSE st
       IN RafaScanLines(lines, i + 1, next)

\* "If no valid MCC was extracted, use a default"
RafaDefaultCode(st) ==
  IF st.suggested_mcc = ""
  THEN [analysis |-> "Unable to determine specific MCC from business name.",
        suggested_mcc |-> "7299",
        suggested_description |-> "Other Services"]
  ELSE st

\* the body of the try block of _parse_openai_response
RafaParseBody(response_text) ==
  LET scanned ==
        RafaScanLines(StripSplit(response_text.lines), 1,
          [analysis |-> "", suggested_mcc |-> "", suggested_description |-> ""])
      same ==
        IF IsSame(scanned.suggested_mcc)
        THEN [scanned EXCEPT !.suggested_mcc = "7299",
                             !.suggested_description = "Other Services"]
        ELSE scanned
      cleaned == [same EXCEPT !.suggested_mcc = DigitsOnly(same.suggested_mcc)]
  IN RafaDefaultCode(cleaned)

\* the try block of _parse_openai_response: None has no strip(), every other
\* statement of the block is defined on every str
RafaParseTry(response_text) ==
  IF response_text = NoneReply
  THEN [raised |-> TRUE,
        error |-> "'NoneType' object has no attribute 'strip'"]
  ELSE [raised |-> FALSE, value |-> RafaParseBody(response_text)]

\* variant: _parse_openai_response without its except clause
RafaParseUnguarded(response_text) ==
  LET t == RafaParseTry(response_text)
  IN IF t.raised THEN [returned |-> FALSE, error |-> t.error]
     ELSE [returned |-> TRUE, analysis |-> t.value.analysis,
           suggested_mcc |-> t.value.suggested_mcc,
           suggested_description |-> t.value.suggested_description]

\* RafaAgent._parse_openai_response
RafaParseOpenaiResponse(response_text) ==
  LET Handled(t) ==
        IF t.raised
        THEN [returned |-> TRUE,
              analysis |-> "Error analyzing merchant: " \o t.error,
              suggested_mcc |-> "7299",
              suggested_description |-> "Other Services"]
        ELSE [returned |-> TRUE, analysis |-> t.value.analysis,
              suggested_mcc |-> t.value.suggested_mcc,
              suggested_description |-> t.value.suggested_description]
  IN Handled(RafaParseTry(response_text))

\* RafaAgent._determine_industry
RafaDetermineIndustry(mcc) ==
  IF ~Truthy(mcc) \/ Len(Chars(mcc)) < 2 THEN "Unknown"
  ELSE LET c == Chars(mcc)[1]
       IN CASE c = "5" -> "Retail/Merchants"
            [] c = "7" -> "Services"
            [] c = "8" -> "Professional Services/Healthcare"
            [] c = "4" -> "Transportation/Utilities"
            [] c = "6" -> "Financial Services"
            [] c = "9" -> "Government Services"
            [] OTHER -> "Other Business Categories"

\* mcc.startswith(primary_mcc[:2])
StartsWithCategory(mcc, primary_mcc) ==
  /\ Len(Chars(mcc)) >= 2
  /\ SubSeq(Chars(mcc), 1, 2) = SubSeq(Chars(primary_mcc), 1, 2)

RECURSIVE Dedupe(_, _)
\* "Remove duplicates (keeping highest score)": a dict keeps the place of the
\* first insertion of a key
Dedupe(cands, acc) ==
  IF cands = <<>> THEN acc
  ELSE LET c == Head(cands)
           seen == {j \in 1..Len(acc) : acc[j].mcc = c.mcc}
       IN IF seen = {} THEN Dedupe(Tail(cands), Append(acc, c))
          ELSE LET j == CHOOSE k \in seen : TRUE
               IN Dedupe(Tail(cands),
                         IF c.score > acc[j].score THEN [acc EXCEPT ![j] = c]
                         ELSE acc)

\* RafaAgent._generate_alternatives; scores are kept in tenths (a keyword
\* match is 10, the same category 5, a generic candidate 0)
RafaGenerateAlternatives(primary_mcc, name) ==
  LET matches == NameScores[name]
      keyword ==
        [i \in 1..Len(matches) |-> [matches[i] EXCEPT !.score = 10 * @]]
      strategy1 == SelectSeq(keyword, LAMBDA m : m.mcc # primary_mcc)
      all == [i \in 1..Len(DefaultMccData) |->
                [mcc |-> DefaultMccData[i].mcc,
                 description |-> DefaultMccData[i].description,
                 score |-> 5]]
      strategy2 ==
        IF Len(Chars(primary_mcc)) >= 2
        THEN SelectSeq(all, LAMBDA m : m.mcc # primary_mcc
                                       /\ StartsWithCategory(m.mcc, primary_mcc))
        ELSE <<>>
      found == strategy1 \o strategy2
      generic ==
        (IF primary_mcc # "7299"
         THEN <<[mcc |-> "7299", description |-> "Other Services", score |-> 0]>>
         ELSE <<>>)
        \o (IF primary_mcc # "5399"
            THEN <<[mcc |-> "5399", description |-> "Other Retail", score |-> 0]>>
            ELSE <<>>)
        \o (IF primary_mcc # "7399"
            THEN <<[mcc |-> "7399", description |-> "Other B2B Services", score |-> 0]>>
            ELSE <<>>)
      candidates == IF Len(found) < 2 THEN found \o generic ELSE found
      top == Take(SortByScoreDesc(Dedupe(candidates, <<>>)), 2)
  IN [i \in 1..Len(top) |->
        [mcc_code |-> top[i].mcc,
         mcc_description |-> top[i].description,
         confidence |-> 30 + Min(40, top[i].score),
         explanation |-> "Alternative classification based on merchant name similarity"]]

\* RafaAgent._fallback_classify
RafaFallbackClassify(name, legal) ==
  LET mcc_scores == CombinedScores[name, legal]
  IN IF mcc_scores = <<>>
     THEN [mcc_code |-> "7299",
           mcc_description |-> "Other Services",
           confidence |-> 50,
           alternative_mccs |->
             <<[mcc_code |-> "5399", mcc_description |-> "Other Retail", confidence |-> 20],
               [mcc_code |-> "7399", mcc_description |-> "Other B2B Services", confidence |-> 15]>>,
           analysis |-> "No clear business category identified from name. Using generic service category."]
     ELSE LET top == mcc_scores[FirstMaxIndex(mcc_scores)]
              others == Take(SelectSeq(SortByScoreDesc(mcc_scores),
                                       LAMBDA m : m.mcc # top.mcc), 2)
              alternatives ==
                [i \in 1..Len(others) |->
                   [mcc_code |-> others[i].mcc,
                    mcc_description |-> others[i].description,
                    confidence |-> Min(60, 30 + others[i].score * 10)]]
              generic ==
                IF top.mcc # "7299"
                THEN [mcc_code |-> "7299", mcc_description |-> "Other Services", confidence |-> 20]
                ELSE [mcc_code |-> "5399", mcc_description |-> "Other Retail", confidence |-> 20]
          IN [mcc_code |-> top.mcc,
              mcc_description |-> top.description,
              confidence |-> Min(85, 50 + top.score * 10),
              alternative_mccs |->
                IF Len(alternatives) < 2 THEN Append(alternatives, generic)
                ELSE alternatives,
              analysis |-> "Based on business name, classified as " \o top.description \o "."]

\* "Determine confidence based on analysis" in classify_with_openai
RafaConfidence(analysis) ==
  IF AnalysisWords(analysis) \cap {"unclear", "ambiguous"} # {} THEN 70
  ELSE IF AnalysisWords(analysis) \cap {"strongly", "clearly"} # {} THEN 95
  ELSE 85

\* the dict classify_with_openai builds from a reply it received
RafaFromReply(response_text, name, legal) ==
  LET FromParsed(p) ==
        IF ~p.returned THEN RafaFallbackClassify(name, legal)
        ELSE [mcc_code |-> p.suggested_mcc,
              mcc_description |-> p.suggested_description,
              confidence |-> RafaConfidence(p.analysis),
              alternative_mccs |-> RafaGenerateAlternatives(p.suggested_mcc, name),
              analysis |-> p.analysis,
              industry_classification |-> RafaDetermineIndustry(p.suggested_mcc),
              reasoning |-> "Classification based on merchant name analysis."]
  IN FromParsed(RafaParseOpenaiResponse(response_text))

\* the fixed decision RafaAgent.classify returns for a blank name
RafaDefault ==
  [mcc_code |-> "7299",
   mcc_description |-> "Other Services",
   confidence |-> 50,
   alternative_mccs |->
     <<[mcc_code |-> "5399", mcc_description |-> "Other Retail", confidence |-> 30],
       [mcc_code |-> "7399", mcc_description |-> "Other B2B Services", confidence |-> 20]>>,
   industry_classification |-> "Services",
   analysis |-> "No merchant name provided.",
   reasoning |-> "Default classification due to missing merchant name."]

-----------------------------------------------------------------------------
(* WakiAgent: _parse_gpt_response *)

WakiLines ==
  {"",
   "1. **Analysis**: The merchant sells groceries.",
   "Sells groceries and household goods.",
   "2. **Industry Classification**:",
   "3. **Primary MCC**: 5411",
   "Primary MCC: 54112",
   "4. **MCC Description**: Grocery Stores, Supermarkets",
   "5. **Reasoning**: The name contains grocery.",
   "The category code 5812 fits best.",
   "6. **Confidence**: High (95% confident)",
   "Confidence: 0.85",
   "Confidence: 150%",
   "7. **Alternative MCCs**:",
   "- 5499: Misc. Food Stores",
   "- 5411: Grocery Stores",
   "  lorem ipsum dolor"}

\* which of the substrings _parse_gpt_response looks for occur in
\* line.lower(); "analysis|step-by-step" stands for the regular expression
\* r'analysis|step[- ]by[- ]step'
Needles(line) ==
  CASE line = "1. **Analysis**: The merchant sells groceries." -> {"analysis|step-by-step"}
  [] line = "2. **Industry Classification**:" -> {"industry classification", "**industry"}
  [] line = "3. **Primary MCC**: 5411" -> {"primary mcc", "mcc"}
  [] line = "Primary MCC: 54112" -> {"primary mcc", "mcc:", "mcc"}
  [] line = "Primary MCC: 5999" -> {"primary mcc", "mcc:", "mcc"}
  [] line = "4. **MCC Description**: Grocery Stores, Supermarkets" -> {"mcc description", "mcc"}
  [] line = "5. **Reasoning**: The name contains grocery." -> {"reasoning"}
  [] line = "The category code 5812 fits best." -> {"code", "category"}
  [] line = "6. **Confidence**: High (95% confident)" -> {"confidence", "high"}
  [] line = "Confidence: 0.85" -> {"confidence"}
  [] line = "Confidence: 150%" -> {"confidence"}
  [] line = "Confidence: 20%" -> {"confidence"}
  [] line = "7. **Alternative MCCs**:" -> {"alternative mccs", "alternative mcc", "mcc"}
  [] line = "1. **Analysis**:" -> {"analysis|step-by-step"}
  [] line = "5. **Reasoning**:" -> {"reasoning"}
  [] line = "6. **Confidence**: 95% confident" -> {"confidence"}
  [] line = "6. **Confidence**: 85% confident" -> {"confidence"}
  [] line = "6. **Confidence**: 99% confident" -> {"confidence"}
  [] line = "Classification based on merchant name analysis: Sells groceries and household goods." -> {"analysis|step-by-step"}
  [] OTHER -> {}

\* re.findall(r'(\d{4})', line)
FourDigitRuns(line) ==
  CASE line = "3. **Primary MCC**: 5411" -> <<"5411">>
  [] line = "Primary MCC: 54112" -> <<"5411">>
  [] line = "Primary MCC: 5999" -> <<"5999">>
  [] line = "The category code 5812 fits best." -> <<"5812">>
  [] line = "- 5499: Misc. Food Stores" -> <<"5499">>
  [] line = "- 5411: Grocery Stores" -> <<"5411">>
  [] OTHER -> <<>>

\* re.sub(r'^.*?description:?\s*', '', line, flags=re.IGNORECASE).strip()
AfterDescriptionLabel(line) ==
  CASE line = "" -> ""
  [] line = "1. **Analysis**: The merchant sells groceries." -> "1. **Analysis**: The merchant sells groceries."
  [] line = "Sells groceries and household goods." -> "Sells groceries and household goods."
  [] line = "2. **Industry Classification**:" -> "2. **Industry Classification**:"
  [] line = "3. **Primary MCC**: 5411" -> "3. **Primary MCC**: 5411"
  [] line = "Primary MCC: 54112" -> "Primary MCC: 54112"
  [] line = "4. **MCC Description**: Grocery Stores, Supermarkets" -> "**: Grocery Stores, Supermarkets"
  [] line = "5. **Reasoning**: The name contains grocery." -> "5. **Reasoning**: The name contains grocery."
  [] line = "The category code 5812 fits best." -> "The category code 5812 fits best."
  [] line = "6. **Confidence**: High (95% confident)" -> "6. **Confidence**: High (95% confident)"
  [] line = "Confidence: 0.85" -> "Confidence: 0.85"
  [] line = "Confidence: 150%" -> "Confidence: 150%"
  [] line = "7. **Alternative MCCs**:" -> "7. **Alternative MCCs**:"
  [] line = "- 5499: Misc. Food Stores" -> "- 5499: Misc. Food Stores"
  [] line = "- 5411: Grocery Stores" -> "- 5411: Grocery Stores"
  [] line = "  lorem ipsum dolor" -> "lorem ipsum dolor"
  [] line = "lorem ipsum dolor" -> "lorem ipsum dolor"
  [] line = "1. **Analysis**:" -> "1. **Analysis**:"
  [] line = "Food and Grocery Retail" -> "Food and Grocery Retail"
  [] line = "5. **Reasoning**:" -> "5. **Reasoning**:"
  [] line = "Classification based on merchant name patterns." -> "Classification based on merchant name patterns."
  [] line = "6. **Confidence**: 95% confident" -> "6. **Confidence**: 95% confident"
  [] line = "6. **Confidence**: 85% confident" -> "6. **Confidence**: 85% confident"
  [] line = "6. **Confidence**: 99% confident" -> "6. **Confidence**: 99% confident"
  [] line = "Classification based on merchant name analysis: Sells groceries and household goods." -> "Classification based on merchant name analysis: Sells groceries and household goods."

\* the group of re.search(r'\d{4}[:\s-]+([^\n]+)', line), stripped, or ""
TextAfterCode(line) ==
  CASE line = "The category code 5812 fits best." -> "fits best."
  [] line = "- 5499: Misc. Food Stores" -> "Misc. Food Stores"
  [] line = "- 5411: Grocery Stores" -> "Grocery Stores"
  [] OTHER -> ""

\* the number in re.search(r'(\d{1,3})%|(\d{1,3})\s*percent', line.lower()),
\* or -1 without a match
PercentIn(line) ==
  CASE line = "6. **Confidence**: High (95% confident)" -> 95
  [] line = "Confidence: 150%" -> 150
  [] line = "Confidence: 20%" -> 20
  [] line = "6. **Confidence**: 95% confident" -> 95
  [] line = "6. **Confidence**: 85% confident" -> 85
  [] line = "6. **Confidence**: 99% confident" -> 99
  [] OTHER -> -1

\* float of the group of re.search(r'confidence:?\s*(0\.\d+)', line.lower()),
\* in hundredths, or -1 without a match
DecimalIn(line) ==
  CASE line = "Confidence: 0.85" -> 85
  [] OTHER -> -1

\* the first group that re.findall(
\* r'MCC:?\s*(\d{4})|code:?\s*(\d{4})|suggested:?\s*(\d{4})', line) fills
LabelledCodes(line) ==
  CASE line = "Primary MCC: 54112" -> <<"5411">>
  [] line = "The category code 5812 fits best." -> <<"5812">>
  [] OTHER -> <<>>

\* the group of re.search(rf'{code}[:\s-]+([^\.]+)', line), stripped, for the
\* first four-digit run of the line, or None without a match
SentenceAfterCode(line) ==
  CASE line = "The category code 5812 fits best." -> "fits best"
  [] line = "- 5499: Misc. Food Stores" -> "Misc"
  [] line = "- 5411: Grocery Stores" -> "Grocery Stores"
  [] OTHER -> None

RECURSIVE CollectUntil(_, _, _)
\* the stripped non-empty lines from line j up to the first line that holds
\* one of the stop headers
CollectUntil(lines, j, stops) ==
  IF j > Len(lines) \/ Needles(lines[j]) \cap stops # {} THEN <<>>
  ELSE (IF Strip(lines[j]) # "" THEN <<Strip(lines[j])>> ELSE <<>>)
       \o CollectUntil(lines, j + 1, stops)

\* the branch "Extract confidence"
ConfidenceOf(line, confidence_value) ==
  LET n == Needles(line)
      word == IF "high" \in n THEN 95
              ELSE IF "medium" \in n THEN 80
              ELSE IF "low" \in n THEN 60
              ELSE confidence_value
      percentage == IF PercentIn(line) >= 0
                    THEN Min(99, Max(1, PercentIn(line)))
                    ELSE word
  IN IF DecimalIn(line) >= 0 THEN DecimalIn(line) ELSE percentage

\* current_alt with its explanation, when there is one
WithExplanation(current_alt, alt_explanation) ==
  IF alt_explanation # ""
  THEN [k \in DOMAIN current_alt \cup {"explanation"} |->
          IF k = "explanation" THEN alt_explanation ELSE current_alt[k]]
  ELSE current_alt

\* the branch "Process alternative MCCs"
AlternativeLine(line, st) ==
  LET mcc_matches == FourDigitRuns(line)
      started == "mcc_code" \in DOMAIN st.current_alt
  IN IF mcc_matches # <<>>
     THEN LET alternative_mccs ==
                IF started
                THEN Append(st.alternative_mccs,
                            WithExplanation(st.current_alt, st.alt_explanation))
                ELSE st.alternative_mccs
              alt_confidence ==
                Max(10, st.confidence_value - 20 - 10 * Len(alternative_mccs))
          IN [st EXCEPT !.alternative_mccs = alternative_mccs,
                        !.alt_explanation = IF started THEN "" ELSE @,
                        !.current_alt =
                           [mcc_code |-> mcc_matches[1],
                            mcc_description |-> TextAfterCode(line),
                            confidence |-> alt_confidence]]
     ELSE IF started
     THEN [st EXCEPT !.alt_explanation =
                        IF @ # "" THEN @ \o " " \o line ELSE line]
     ELSE st

\* one non-empty line of the first pass
WakiLine(lines, i, line, st) ==
  LET n == Needles(line)
  IN IF "analysis|step-by-step" \in n
     THEN [st EXCEPT !.analysis =
             CollectUntil(lines, i + 1,
               {"industry classification", "primary mcc", "mcc description",
                "**industry"})]
     ELSE IF "industry classification" \in n
     THEN [st EXCEPT !.industry_classification =
             JoinSpace(CollectUntil(lines, i + 1,
               {"primary mcc", "mcc description", "reasoning"}))]
     ELSE IF n \cap {"primary mcc", "mcc code", "mcc:"} # {}
     THEN IF FourDigitRuns(line) # <<>>
          THEN [st EXCEPT !.mcc_code = FourDigitRuns(line)[1]]
          ELSE st
     ELSE IF n \cap {"mcc description", "description:"} # {}
     THEN LET here == AfterDescriptionLabel(line)
              desc == IF here = "" /\ i + 1 <= Len(lines)
                      THEN Strip(lines[i + 1]) ELSE here
          IN IF desc # "" THEN [st EXCEPT !.mcc_description = desc] ELSE st
     ELSE IF "reasoning" \in n
     THEN [st EXCEPT !.reasoning =
             CollectUntil(lines, i + 1, {"confidence", "alternative mccs"})]
     ELSE IF "confidence" \in n
     THEN [st EXCEPT !.confidence_value = ConfidenceOf(line, @)]
     ELSE IF "alternative mcc" \in n
     THEN [st EXCEPT !.in_alternatives = TRUE]
     ELSE IF st.in_alternatives
     THEN AlternativeLine(line, st)
     ELSE st

RECURSIVE WakiFirstPass(_, _, _)
\* "First pass - extract the main components"; analysis and reasoning are
\* kept as the lines that " ".join puts together
WakiFirstPass(lines, i, st) ==
  IF i > Len(lines) THEN st
  ELSE LET line == Strip(lines[i])
       IN WakiFirstPass(lines, i + 1,
            IF line = "" THEN st ELSE WakiLine(lines, i, line, st))

RECURSIVE FirstLabelledCode(_)
\* the first code the labelled-code expression finds in a section
FirstLabelledCode(section) ==
  IF section = <<>> THEN None
  ELSE IF LabelledCodes(Head(section)) # <<>>
  THEN LabelledCodes(Head(section))[1]
  ELSE FirstLabelledCode(Tail(section))

RECURSIVE FirstCodeLine(_, _)
\* the first line that holds "mcc", "code" or "category" and a four-digit
\* run, or 0
FirstCodeLine(lines, i) ==
  IF i > Len(lines) THEN 0
  ELSE IF /\ Needles(lines[i]) \cap {"mcc", "code", "category"} # {}
          /\ FourDigitRuns(lines[i]) # <<>>
  THEN i
  ELSE FirstCodeLine(lines, i + 1)

\* "search more aggressively": the code and description after it; the loop
\* over [reasoning, analysis] does not stop at the first section with a code
AggressiveSearch(lines, st) ==
  LET from_reasoning == FirstLabelledCode(st.reasoning)
      from_analysis == FirstLabelledCode(st.analysis)
      i == FirstCodeLine(lines, 1)
  IN IF from_analysis # None THEN [st EXCEPT !.mcc_code = from_analysis]
     ELSE IF from_reasoning # None THEN [st EXCEPT !.mcc_code = from_reasoning]
     ELSE IF i = 0 THEN st
     ELSE [st EXCEPT !.mcc_code = FourDigitRuns(lines[i])[1],
                     !.mcc_description =
                        IF SentenceAfterCode(lines[i]) # None
                        THEN SentenceAfterCode(lines[i]) ELSE @]

\* "If we still don't have an MCC code, set the default"
WakiDefaultCode(st) ==
  IF st.mcc_code = None
  THEN [st EXCEPT !.mcc_code = "7299",
                  !.mcc_description = "Miscellaneous Personal Services"]
  ELSE st

\* fallback_alts
WakiFallbackAlts(mcc_code) ==
  LET c == Chars(mcc_code)[1]
  IN CASE c = "5" ->
          <<[mcc_code |-> "5999",
             mcc_description |-> "Miscellaneous and Specialty Retail Stores",
             confidence |-> 30,
             explanation |-> "General retail fallback option"],
            [mcc_code |-> "5499",
             mcc_description |-> "Misc. Food Stores - Convenience Stores and Specialty Markets",
             confidence |-> 25,
             explanation |-> "Food retail alternative if applicable"]>>
       [] c = "7" ->
          <<[mcc_code |-> "7399",
             mcc_description |-> "Business Services, Not Elsewhere Classified",
             confidence |-> 30,
             explanation |-> "Business services alternative"],
            [mcc_code |-> "7311",
             mcc_description |-> "Advertising Services",
             confidence |-> 25,
             explanation |-> "Marketing/promotion services if applicable"]>>
       [] c = "8" ->
          <<[mcc_code |-> "8999",
             mcc_description |-> "Professional Services, Not Elsewhere Classified",
             confidence |-> 30,
             explanation |-> "Alternative professional services classification"],
            [mcc_code |-> "8931",
             mcc_description |-> "Accounting, Auditing, and Bookkeeping Services",
             confidence |-> 25,
             explanation |-> "Financial professional services if applicable"]>>
       [] OTHER ->
          <<[mcc_code |-> "5999",
             mcc_description |-> "Miscellaneous and Specialty Retail Stores",
             confidence |-> 30,
             explanation |-> "Retail alternative"],
            [mcc_code |-> "7299",
             mcc_description |-> "Miscellaneous Personal Services",
             confidence |-> 25,
             explanation |-> "Services alternative"]>>

RECURSIVE FillAlternatives(_, _, _)
\* "Fill any missing alternative MCCs to ensure we have at least 2"
FillAlternatives(alternative_mccs, fallback_alts, mcc_code) ==
  IF fallback_alts = <<>> \/ Len(alternative_mccs) >= 2 THEN alternative_mccs
  ELSE FillAlternatives(
         IF Head(fallback_alts).mcc_code # mcc_code
         THEN Append(alternative_mccs, Head(fallback_alts))
         ELSE alternative_mccs,
         Tail(fallback_alts), mcc_code)

\* WakiAgent._determine_industry
WakiDetermineIndustry(mcc) ==
  IF ~Truthy(mcc) \/ Len(Chars(mcc)) < 2 THEN "Unknown"
  ELSE LET first_digit == Chars(mcc)[1]
           two == Chars(mcc)[1] \o Chars(mcc)[2]
       IN CASE first_digit = "5" ->
                 (CASE two = "54" -> "Food and Grocery Retail"
                    [] two = "56" -> "Apparel and Accessories Retail"
                    [] two = "57" -> "Home Furnishings and Electronics Retail"
                    [] two = "58" -> "Restaurants and Food Service"
                    [] two = "59" -> "Specialty Retail"
                    [] OTHER -> "Retail/Merchants")
            [] first_digit = "7" ->
                 (CASE two \in {"70", "71"} -> "Travel and Lodging"
                    [] two = "72" -> "Personal Services"
                    [] two = "73" -> "Business and Professional Services"
                    [] two \in {"74", "76"} -> "Repair and Maintenance Services"
                    [] two = "75" -> "Auto Services"
                    [] two \in {"78", "79"} -> "Entertainment and Recreation"
                    [] OTHER -> "Services")
            [] first_digit = "8" ->
                 (CASE two = "80" -> "Healthcare"
                    [] two = "81" -> "Legal Services"
                    [] two \in {"82", "83"} -> "Educational Services"
                    [] two = "86" -> "Membership Organizations"
                    [] OTHER -> "Professional Services")
            [] first_digit = "4" -> "Transportation/Utilities"
            [] first_digit = "6" -> "Financial Services"
            [] first_digit = "9" -> "Government Services"
            [] first_digit \in {"0", "1", "2", "3"} ->
                 "Contractors/Construction/Agriculture"
            [] OTHER -> "Other Business Categories"

\* the result dict _parse_gpt_response starts from
WakiEmptyResult ==
  [mcc_code |-> None, mcc_description |-> "", confidence |-> 70,
   alternative_mccs |-> <<>>, analysis |-> "",
   industry_classification |-> "", reasoning |-> ""]

\* the body of the try block of _parse_gpt_response
WakiParseBody(response_text) ==
  LET lines == StripSplit(response_text.lines)
      pass1 == WakiFirstPass(lines, 1,
                 [mcc_code |-> None, mcc_description |-> "",
                  analysis |-> <<>>, industry_classification |-> "",
                  reasoning |-> <<>>, confidence_value |-> 70,
                  in_alternatives |-> FALSE, current_alt |-> <<>>,
                  alt_explanation |-> "", alternative_mccs |-> <<>>])
      parsed_alternatives ==
        IF "mcc_code" \in DOMAIN pass1.current_alt
        THEN Append(pass1.alternative_mccs,
                    WithExplanation(pass1.current_alt, pass1.alt_explanation))
        ELSE pass1.alternative_mccs
      st == WakiDefaultCode(IF pass1.mcc_code = None
                            THEN AggressiveSearch(lines, pass1) ELSE pass1)
      analysis == JoinSpace(st.analysis)
      reasoning == JoinSpace(st.reasoning)
  IN [mcc_code |-> st.mcc_code,
      mcc_description |->
        IF st.mcc_code \in TableCodes(WakiMccData)
        THEN Lookup(WakiMccData, st.mcc_code) ELSE st.mcc_description,
      confidence |-> st.confidence_value,
      alternative_mccs |->
        IF Len(parsed_alternatives) < 2
        THEN FillAlternatives(parsed_alternatives,
                              WakiFallbackAlts(st.mcc_code), st.mcc_code)
        ELSE parsed_alternatives,
      analysis |-> analysis,
      industry_classification |->
        IF st.industry_classification # "" THEN st.industry_classification
        ELSE WakiDetermineIndustry(st.mcc_code),
      reasoning |->
        IF reasoning = "" /\ analysis # ""
        THEN "Classification based on merchant name analysis: " \o analysis
        ELSE IF reasoning = ""
        THEN "Classification based on merchant name patterns."
        ELSE reasoning]

\* the try block of _parse_gpt_response: None has no strip(), every other
\* statement of the block is defined on every str
WakiParseTry(response_text) ==
  IF response_text = NoneReply
  THEN [raised |-> TRUE, result |-> WakiEmptyResult]
  ELSE [raised |-> FALSE, result |-> WakiParseBody(response_text)]

\* WakiAgent._parse_gpt_response: the except clause fills in the default code
\* when the result holds none
WakiParseGptResponse(response_text) ==
  LET Handled(t) ==
        IF t.raised /\ t.result.mcc_code = None
        THEN [returned |-> TRUE,
              result |-> [t.result EXCEPT
                            !.mcc_code = "7299",
                            !.mcc_description = "Miscellaneous Personal Services"]]
        ELSE [returned |-> TRUE, result |-> t.result]
  IN Handled(WakiParseTry(response_text))

-----------------------------------------------------------------------------
(* WakiAgent: _fallback_classify and classify *)

\* the (code, description, confidence) of each re.search of
\* _fallback_classify, in the order of the code
WakiPatterns ==
  <<
  [mcc |-> "5812", description |-> "Eating places and Restaurants", confidence |-> 90],
  [mcc |-> "5814", description |-> "Fast Food Restaurants", confidence |-> 90],
  [mcc |-> "5411", description |-> "Grocery Stores, Supermarkets", confidence |-> 90],
  [mcc |-> "5499", description |-> "Misc. Food Stores - Convenience Stores and Specialty Markets", confidence |-> 85],
  [mcc |-> "5732", description |-> "Electronics Sales", confidence |-> 85],
  [mcc |-> "5651", description |-> "Family Clothing Stores", confidence |-> 85],
  [mcc |-> "5251", description |-> "Hardware Stores", confidence |-> 85],
  [mcc |-> "5712", description |-> "Furniture, Home Furnishings, and Equipment Stores, Except Appliances", confidence |-> 85],
  [mcc |-> "5311", description |-> "Department Stores", confidence |-> 85],
  [mcc |-> "5661", description |-> "Shoe Stores", confidence |-> 90],
  [mcc |-> "7230", description |-> "Barber and Beauty Shops", confidence |-> 90],
  [mcc |-> "7699", description |-> "Repair Shops and Related Services -Miscellaneous", confidence |-> 80],
  [mcc |-> "7538", description |-> "Automotive Service Shops", confidence |-> 90],
  [mcc |-> "7011", description |-> "Lodging - Hotels, Motels, Resorts", confidence |-> 90],
  [mcc |-> "7349", description |-> "Cleaning and Maintenance, Janitorial Services", confidence |-> 85],
  [mcc |-> "8011", description |-> "Doctors and Physicians", confidence |-> 90],
  [mcc |-> "8021", description |-> "Dentists and Orthodontists", confidence |-> 90],
  [mcc |-> "8111", description |-> "Legal Services, Attorneys", confidence |-> 90],
  [mcc |-> "7392", description |-> "Management, Consulting, and Public Relations Services", confidence |-> 80],
  [mcc |-> "6300", description |-> "Insurance Sales, Underwriting and Premiums", confidence |-> 85],
  [mcc |-> "5995", description |-> "Pet Shops, Pet Foods, and Supplies Stores", confidence |-> 90],
  [mcc |-> "5942", description |-> "Bookstores", confidence |-> 90],
  [mcc |-> "5912", description |-> "Drug Stores and Pharmacies", confidence |-> 90],
  [mcc |-> "5945", description |-> "Hobby, Toy, and Game Shops", confidence |-> 85]
  >>

\* keyword_map, in the order of the code
WakiKeywordMap ==
  <<
  [keyword |-> "restaurant", mcc |-> "5812", description |-> "Eating places and Restaurants"],
  [keyword |-> "caf(e-acute)", mcc |-> "5812", description |-> "Eating places and Restaurants"],
  [keyword |-> "cafe", mcc |-> "5812", description |-> "Eating places and Restaurants"],
  [keyword |-> "coffee", mcc |-> "5812", description |-> "Eating places and Restaurants"],
  [keyword |-> "pizza", mcc |-> "5812", description |-> "Eating places and Restaurants"],
  [keyword |-> "food", mcc |-> "5499", description |-> "Misc. Food Stores - Convenience Stores and Specialty Markets"],
  [keyword |-> "grocery", mcc |-> "5411", description |-> "Grocery Stores, Supermarkets"],
  [keyword |-> "market", mcc |-> "5411", description |-> "Grocery Stores, Supermarkets"],
  [keyword |-> "supermarket", mcc |-> "5411", description |-> "Grocery Stores, Supermarkets"],
  [keyword |-> "electronics", mcc |-> "5732", description |-> "Electronics Sales"],
  [keyword |-> "computer", mcc |-> "5045", description |-> "Computers, Computer Peripheral Equipment, Software"],
  [keyword |-> "software", mcc |-> "5045", description |-> "Computers, Computer Peripheral Equipment, Software"],
  [keyword |-> "hardware", mcc |-> "5251", description |-> "Hardware Stores"],
  [keyword |-> "clothing", mcc |-> "5651", description |-> "Family Clothing Stores"],
  [keyword |-> "apparel", mcc |-> "5699", description |-> "Miscellaneous Apparel and Accessory Shops"],
  [keyword |-> "fashion", mcc |-> "5699", description |-> "Miscellaneous Apparel and Accessory Shops"],
  [keyword |-> "shoe", mcc |-> "5661", description |-> "Shoe Stores"],
  [keyword |-> "footwear", mcc |-> "5661", description |-> "Shoe Stores"],
  [keyword |-> "salon", mcc |-> "7230", description |-> "Barber and Beauty Shops"],
  [keyword |-> "spa", mcc |-> "7298", description |-> "Health and Beauty Shops"],
  [keyword |-> "beauty", mcc |-> "7298", description |-> "Health and Beauty Shops"],
  [keyword |-> "barber", mcc |-> "7230", description |-> "Barber and Beauty Shops"],
  [keyword |-> "hair", mcc |-> "7230", description |-> "Barber and Beauty Shops"],
  [keyword |-> "doctor", mcc |-> "8011", description |-> "Doctors and Physicians"],
  [keyword |-> "medical", mcc |-> "8099", description |-> "Medical Services and Health Practitioners"],
  [keyword |-> "dentist", mcc |-> "8021", description |-> "Dentists and Orthodontists"],
  [keyword |-> "dental", mcc |-> "8021", description |-> "Dentists and Orthodontists"],
  [keyword |-> "clean", mcc |-> "7349", description |-> "Cleaning and Maintenance, Janitorial Services"],
  [keyword |-> "repair", mcc |-> "7699", description |-> "Repair Shops and Related Services -Miscellaneous"],
  [keyword |-> "auto", mcc |-> "7538", description |-> "Automotive Service Shops"],
  [keyword |-> "car", mcc |-> "7538", description |-> "Automotive Service Shops"],
  [keyword |-> "hotel", mcc |-> "7011", description |-> "Lodging - Hotels, Motels, Resorts"],
  [keyword |-> "motel", mcc |-> "7011", description |-> "Lodging - Hotels, Motels, Resorts"],
  [keyword |-> "pet", mcc |-> "5995", description |-> "Pet Shops, Pet Foods, and Supplies Stores"],
  [keyword |-> "toy", mcc |-> "5945", description |-> "Hobby, Toy, and Game Shops"]
  >>

\* which patterns re.search finds in
\* merchant_name.lower() + " " + legal_name.lower()
PatternHits(name, legal) ==
  CASE name = "City Grocery" /\ legal = None -> {3}
  [] name = "City Grocery" /\ legal = "Joe Smith" -> {3}
  [] name = "City Grocery" /\ legal = "Smith Restaurants" -> {3}
  [] name = "Laundry Services" /\ legal = None -> {15}
  [] name = "Laundry Services" /\ legal = "Joe Smith" -> {15}
  [] name = "Laundry Services" /\ legal = "Smith Restaurants" -> {15}
  [] name = "Auto Parts Center" /\ legal = None -> {13}
  [] name = "Auto Parts Center" /\ legal = "Joe Smith" -> {13}
  [] name = "Auto Parts Center" /\ legal = "Smith Restaurants" -> {13}
  [] name = "Pet Food Market" /\ legal = None -> {1, 3, 21}
  [] name = "Pet Food Market" /\ legal = "Joe Smith" -> {1, 3, 21}
  [] name = "Pet Food Market" /\ legal = "Smith Restaurants" -> {1, 3, 21}
  [] OTHER -> {}

\* which keys of keyword_map occur in the same text
KeywordHits(name, legal) ==
  CASE name = "" /\ legal = "Smith Restaurants" -> {1}
  [] name = "   " /\ legal = "Smith Restaurants" -> {1}
  [] name = "City Grocery" /\ legal = None -> {7}
  [] name = "City Grocery" /\ legal = "Joe Smith" -> {7}
  [] name = "City Grocery" /\ legal = "Smith Restaurants" -> {1, 7}
  [] name = "Joe Smith" /\ legal = "Smith Restaurants" -> {1}
  [] name = "Laundry Services" /\ legal = "Smith Restaurants" -> {1}
  [] name = "Auto Parts Center" /\ legal = None -> {30}
  [] name = "Auto Parts Center" /\ legal = "Joe Smith" -> {30}
  [] name = "Auto Parts Center" /\ legal = "Smith Restaurants" -> {1, 30}
  [] name = "Supermarkets Plus" /\ legal = None -> {8, 9}
  [] name = "Supermarkets Plus" /\ legal = "Joe Smith" -> {8, 9}
  [] name = "Supermarkets Plus" /\ legal = "Smith Restaurants" -> {1, 8, 9}
  [] name = "Pet Food Market" /\ legal = None -> {6, 8, 34}
  [] name = "Pet Food Market" /\ legal = "Joe Smith" -> {6, 8, 34}
  [] name = "Pet Food Market" /\ legal = "Smith Restaurants" -> {1, 6, 8, 34}
  [] name = "Pizzaria" /\ legal = None -> {5}
  [] name = "Pizzaria" /\ legal = "Joe Smith" -> {5}
  [] name = "Pizzaria" /\ legal = "Smith Restaurants" -> {1, 5}
  [] OTHER -> {}

\* merchant_name.split(' ')[0]
FirstWord(name) ==
  CASE name = "" -> ""
  [] name = "   " -> ""
  [] name = "City Grocery" -> "City"
  [] name = "Joe Smith" -> "Joe"
  [] name = "Laundry Services" -> "Laundry"
  [] name = "Auto Parts Center" -> "Auto"
  [] name = "Supermarkets Plus" -> "Supermarkets"
  [] name = "Pet Food Market" -> "Pet"
  [] name = "Pizzaria" -> "Pizzaria"

\* ' ' in merchant_name
HasBlank(name) == name \in {"   ", "City Grocery", "Joe Smith", "Laundry Services", "Auto Parts Center", "Supermarkets Plus", "Pet Food Market"}

RECURSIVE PatternMatches(_, _)
\* pattern_matches, before it is sorted
PatternMatches(hits, i) ==
  IF i > Len(WakiPatterns) THEN <<>>
  ELSE (IF i \in hits
        THEN <<[mcc |-> WakiPatterns[i].mcc,
                description |-> WakiPatterns[i].description,
                score |-> WakiPatterns[i].confidence]>>
        ELSE <<>>) \o PatternMatches(hits, i + 1)

\* the two alternatives most branches of _fallback_classify return
WakiGenericAlternatives ==
  <<[mcc_code |-> "5999",
     mcc_description |-> "Miscellaneous and Specialty Retail Stores",
     confidence |-> 30],
    [mcc_code |-> "7299",
     mcc_description |-> "Miscellaneous Personal Services",
     confidence |-> 20]>>

\* the branch "If we have pattern matches"
WakiFromPatterns(pattern_matches) ==
  LET sorted == SortByScoreDesc(pattern_matches)
      top_match == sorted[1]
      rest == SubSeq(sorted, 2, Min(3, Len(sorted)))
      others == [i \in 1..Len(rest) |->
                   [mcc_code |-> rest[i].mcc,
                    mcc_description |-> rest[i].description,
                    confidence |-> rest[i].score - 20]]
      alternative_mccs ==
        IF Len(others) >= 2 THEN others
        ELSE IF top_match.mcc # "5999"
        THEN Append(others,
               [mcc_code |-> "5999",
                mcc_description |-> "Miscellaneous and Specialty Retail Stores",
                confidence |-> 30])
        ELSE Append(others,
               [mcc_code |-> "7299",
                mcc_description |-> "Miscellaneous Personal Services",
                confidence |-> 30])
  IN [mcc_code |-> top_match.mcc,
      mcc_description |-> top_match.description,
      confidence |-> top_match.score,
      alternative_mccs |-> alternative_mccs,
      industry_classification |-> WakiDetermineIndustry(top_match.mcc),
      analysis |-> "Identified business type from name patterns",
      reasoning |-> "Pattern matching identified keywords related to "
                    \o top_match.description]

\* the branch "Look for keywords in merchant name"
WakiFromKeyword(hits) ==
  LET first == CHOOSE i \in hits : \A j \in hits : i <= j
      keyword == WakiKeywordMap[first].keyword
      mcc_info == WakiKeywordMap[first]
  IN [mcc_code |-> mcc_info.mcc,
      mcc_description |-> mcc_info.description,
      confidence |-> 70,
      alternative_mccs |-> WakiGenericAlternatives,
      industry_classification |-> WakiDetermineIndustry(mcc_info.mcc),
      analysis |-> "Found keyword \"" \o keyword \o "\" in merchant name",
      reasoning |-> "Keyword matching identified \"" \o keyword
                    \o "\" related to " \o mcc_info.description]

\* the branch "Default fallback"
WakiFromFirstWord(name) ==
  IF HasBlank(name) /\ Len(FirstWord(name)) > 2
  THEN [mcc_code |-> "7299",
        mcc_description |-> "Miscellaneous Personal Services",
        confidence |-> 60,
        alternative_mccs |->
          <<[mcc_code |-> "5999",
             mcc_description |-> "Miscellaneous and Specialty Retail Stores",
             confidence |-> 30],
            [mcc_code |-> "7399", mcc_description |-> "Business Services",
             confidence |-> 20]>>,
        industry_classification |-> "Services",
        analysis |-> "Unable to identify specific business type from name",
        reasoning |-> "Name suggests a personal or professional service business"]
  ELSE [mcc_code |-> "5999",
        mcc_description |-> "Miscellaneous and Specialty Retail Stores",
        confidence |-> 60,
        alternative_mccs |->
          <<[mcc_code |-> "7299",
             mcc_description |-> "Miscellaneous Personal Services",
             confidence |-> 30],
            [mcc_code |-> "7399", mcc_description |-> "Business Services",
             confidence |-> 20]>>,
        industry_classification |-> "Retail/Merchants",
        analysis |-> "Unable to identify specific business type from name",
        reasoning |-> "Defaulting to retail classification based on statistical prevalence"]

\* WakiAgent._fallback_classify; original_mcc is '' when merchant_data holds
\* no original_mcc_code
WakiFallbackClassify(name, legal, original_mcc) ==
  IF Truthy(original_mcc) /\ original_mcc \in TableCodes(WakiMccData)
  THEN [mcc_code |-> original_mcc,
        mcc_description |-> Lookup(WakiMccData, original_mcc),
        confidence |-> 70,
        alternative_mccs |-> WakiGenericAlternatives,
        industry_classification |-> WakiDetermineIndustry(original_mcc),
        analysis |-> "Using provided original MCC code",
        reasoning |-> "Classification based on original MCC code"]
  ELSE IF PatternHits(name, legal) # {}
  THEN WakiFromPatterns(PatternMatches(PatternHits(name, legal), 1))
  ELSE IF KeywordHits(name, legal) # {}
  THEN WakiFromKeyword(KeywordHits(name, legal))
  ELSE WakiFromFirstWord(name)

-----------------------------------------------------------------------------
(* classify(): one call of one strategy *)

\* the bound on the lines of a reply the service sends to classify()
MaxServiceLines == 2

\* what response.choices[0].message.content may hold for RafaAgent
RafaReplies == Texts(RafaLines, MaxServiceLines) \cup {NoneReply}

\* RafaAgent.classify, blank name
RafaEmptyName ==
  /\ agent = "Rafa" /\ pc = "start"
  /\ IsBlank(merchant_name)
  /\ final_result' = RafaDefault
  /\ pc' = "done"
  /\ UNCHANGED <<agent, merchant_name, legal_name, original_mcc_code,
                 mcc_description, client,
                 tier1_result, risk_tier_result, tier3_result, service_calls,
                 tier_log>>
  /\ UNCHANGED <<parse_vars, repeat_vars, eval_vars, factory_vars,
                 matheus_vars>>

\* RafaAgent.classify with a name: classify_with_openai
RafaClassifyWithOpenai ==
  /\ agent = "Rafa" /\ pc = "start"
  /\ ~IsBlank(merchant_name)
  /\ IF ~client
     THEN /\ final_result' = RafaFallbackClassify(merchant_name, legal_name)
          /\ UNCHANGED <<service_calls, tier_log>>
     ELSE /\ service_calls' = Append(service_calls, "gpt-4-turbo")
          /\ \/ \E response_text \in RafaReplies :
                  /\ tier_log' = Append(tier_log,
                       [tier |-> "gpt-4-turbo", called |-> TRUE,
                        raised |-> FALSE, reported |-> response_text])
                  /\ final_result' =
                       RafaFromReply(response_text, merchant_name, legal_name)
             \/ /\ tier_log' = Append(tier_log,
                       [tier |-> "gpt-4-turbo", called |-> TRUE,
                        raised |-> TRUE, reported |-> Unset])
                /\ final_result' = RafaFallbackClassify(merchant_name, legal_name)
  /\ pc' = "done"
  /\ UNCHANGED <<agent, merchant_name, legal_name, original_mcc_code,
                 mcc_description, client,
                 tier1_result, risk_tier_result, tier3_result>>
  /\ UNCHANGED <<parse_vars, repeat_vars, eval_vars, factory_vars,
                 matheus_vars>>

\* what response.choices[0].message.content may hold for WakiAgent
WakiReplies == Texts(WakiLines, MaxServiceLines) \cup {NoneReply}

\* the models classify asks in turn
WakiModels == <<"gpt-4o", "gpt-4", "gpt-3.5-turbo">>

\* the log of k requests of which the first k - 1 raised
WakiAttempts(k, last_raised, response_text) ==
  [i \in 1..k |->
     [tier |-> WakiModels[i], called |-> TRUE,
      raised |-> (i < k \/ last_raised),
      reported |-> IF i = k /\ ~last_raised THEN response_text ELSE Unset]]

\* full_merchant_data.get('original_mcc_code', '')
WakiOriginalMcc == IF original_mcc_code = Absent THEN "" ELSE original_mcc_code

\* the dict classify returns for a reply it received
WakiFromReply(response_text) ==
  LET FromParsed(p) ==
        IF p.returned THEN p.result
        ELSE WakiFallbackClassify(merchant_name, legal_name, WakiOriginalMcc)
  IN FromParsed(WakiParseGptResponse(response_text))

\* WakiAgent.classify: there is no test of the name; without a client the
\* fallback classifies; with one, up to three models are asked, the reply of
\* the first that answers is parsed, and any exception leads to the fallback
WakiClassify ==
  /\ agent = "Waki" /\ pc = "start"
  /\ IF ~client
     THEN /\ final_result' =
               WakiFallbackClassify(merchant_name, legal_name, WakiOriginalMcc)
          /\ UNCHANGED <<service_calls, tier_log>>
     ELSE \E k \in 1..Len(WakiModels) :
            /\ service_calls' = service_calls \o SubSeq(WakiModels, 1, k)
            /\ \/ \E response_text \in WakiReplies :
                    /\ tier_log' = WakiAttempts(k, FALSE, response_text)
                    /\ final_result' = WakiFromReply(response_text)
               \/ /\ k = Len(WakiModels)
                  /\ tier_log' = WakiAttempts(k, TRUE, Unset)
                  /\ final_result' =
                       WakiFallbackClassify(merchant_name, legal_name,
                                            WakiOriginalMcc)
  /\ pc' = "done"
  /\ UNCHANGED <<agent, merchant_name, legal_name, original_mcc_code,
                 mcc_description, client,
                 tier1_result, risk_tier_result, tier3_result>>
  /\ UNCHANGED <<parse_vars, repeat_vars, eval_vars, factory_vars,
                 matheus_vars>>

-----------------------------------------------------------------------------
(* Python values in the cells of a record *)

PyS(x) == [str |-> x]
PyI(n) == [int |-> n]
\* the float n.0
PyF(n) == [float |-> n]
\* float('nan'), which pandas puts where a cell is empty
NaN == [nan |-> TRUE]

IsStr(v) == DOMAIN v = {"str"}
IsInt(v) == DOMAIN v = {"int"}
IsFloat(v) == DOMAIN v = {"float"}

\* bool(v): only '', 0 and 0.0 are false; nan is true
PyTruthy(v) ==
  CASE IsStr(v) -> v.str # ""
    [] IsInt(v) -> v.int # 0
    [] IsFloat(v) -> v.float # 0
    [] OTHER -> TRUE

DigitText(d) ==
  CASE d = 0 -> "0" [] d = 1 -> "1" [] d = 2 -> "2" [] d = 3 -> "3"
    [] d = 4 -> "4" [] d = 5 -> "5" [] d = 6 -> "6" [] d = 7 -> "7"
    [] d = 8 -> "8" [] d = 9 -> "9"

RECURSIVE IntText(_)
\* str(n) of a non-negative int
IntText(n) ==
  IF n < 10 THEN DigitText(n)
  ELSE IntText(n \div 10) \o DigitText(n % 10)

\* str(v)
PyStr(v) ==
  CASE IsStr(v) -> v.str
    [] IsInt(v) -> IntText(v.int)
    [] IsFloat(v) -> IntText(v.float) \o ".0"
    [] OTHER -> "nan"

-----------------------------------------------------------------------------
(* DataHandler.read_csv *)

MaxRecords == 2

NoFile == [exists |-> FALSE]

NameCells == {"", "City Grocery"}
CodeCells == {"", "5411", "5812"}

Headers == {<<"Merchant Name", "Actual MCC code">>, <<"Merchant Name">>}

\* the rows a file with the given header may hold
CsvRows(header) ==
  IF Len(header) = 2
  THEN [name : NameCells, code : CodeCells]
  ELSE [name : NameCells, code : {""}]

CsvFiles ==
  {NoFile}
  \cup UNION {{[exists |-> TRUE, header |-> h, rows |-> r] :
                  r \in UNION {[1..n -> CsvRows(h)] : n \in 0..MaxRecords}} :
               h \in Headers}

\* the int pandas parses from the text of a numeric cell
ParseInt(cell) ==
  CASE cell = "5411" -> 5411
    [] cell = "5812" -> 5812

\* pd.read_csv(file_path).to_dict(orient="records"): an empty cell is nan, a
\* column of numbers is int64, or float64 when one of its cells is empty, a
\* line with no character (an empty name in a one-column file) is no row
ReadCsv(file) ==
  LET kept == IF Len(file.header) = 1
              THEN SelectSeq(file.rows, LAMBDA r : r.name # "")
              ELSE file.rows
      any_empty_code == \E i \in 1..Len(kept) : kept[i].code = ""
      NameValue(r) == IF r.name = "" THEN NaN ELSE PyS(r.name)
      CodeValue(r) ==
        IF r.code = "" THEN NaN
        ELSE IF any_empty_code THEN PyF(ParseInt(r.code))
        ELSE PyI(ParseInt(r.code))
  IN [i \in 1..Len(kept) |->
        [k \in {file.header[j] : j \in 1..Len(file.header)} |->
           IF k = "Merchant Name" THEN NameValue(kept[i])
           ELSE CodeValue(kept[i])]]

-----------------------------------------------------------------------------
(* MCCEvaluator.evaluate *)

\* self.agents, by name
EvalAgents == <<"Agent1", "Agent2">>

AgentNames == {EvalAgents[j] : j \in 1..Len(EvalAgents)}

\* whether the agent's classify takes the keyword arguments of
\* additional_data; one that does not raises TypeError when given them
AcceptsMerchantData(a) == a = "Agent1"

\* what a call of classify that returns may return
AgentResults ==
  {[mcc_code |-> PyS(" 5411"), mcc_description |-> "Grocery Stores",
    confidence |-> 90],
   [mcc_code |-> PyI(5812), mcc_description |-> "Restaurants",
    confidence |-> 80]}

\* a call of classify returns a result or raises
ClassifyOutcomes ==
  {[raised |-> FALSE, result |-> r] : r \in AgentResults}
  \cup {[raised |-> TRUE, error |-> "classify failed"]}

\* the calls of classify made for one agent and one merchant, the last of
\* them with outcome o: with pass_full_data an agent that does not take the
\* keyword arguments raises TypeError, which is caught inside the agent loop's
\* try, and is called again with the two names alone
ClassifyCalls(a, i, full, o) ==
  LET last(f) == [merchant |-> i, agent |-> a, full_data |-> f,
                  outcome |-> IF o.raised THEN "Exception" ELSE "returned"]
  IN IF ~full THEN <<last(FALSE)>>
     ELSE IF AcceptsMerchantData(a) THEN <<last(TRUE)>>
     ELSE <<[merchant |-> i, agent |-> a, full_data |-> TRUE,
             outcome |-> "TypeError"],
            last(FALSE)>>

\* variant: the codes are compared as str() gives them
CodesMatchUnstripped(code, actual_mcc) == PyStr(code) = PyStr(actual_mcc)

\* str(result["mcc_code"]).strip() == str(actual_mcc).strip()
CodesMatch(code, actual_mcc) == Strip(PyStr(code)) = Strip(PyStr(actual_mcc))

\* "if not merchant_name or not actual_mcc"
IsSkipped(merchant) ==
  \/ ~PyTruthy(Get(merchant, "Merchant Name", PyS("")))
  \/ ~PyTruthy(Get(merchant, "Actual MCC code", PyS("")))

\* output_row before the agents are asked
BaseRow(merchant) ==
  [k \in {"Merchant Name", "Legal Name", "Actual MCC", "MCC Description"} |->
     CASE k = "Merchant Name" -> Get(merchant, "Merchant Name", PyS(""))
       [] k = "Legal Name" -> Get(merchant, "Legal Name", PyS(""))
       [] k = "Actual MCC" -> Get(merchant, "Actual MCC code", PyS(""))
       [] k = "MCC Description" -> Get(merchant, "MCC Description", PyS(""))]

\* a confidence, in hundredths
Conf(c) == [hundredths |-> c]

\* the four columns of one agent in a row
AgentColumns(a, suggested, description, confidence, match) ==
  (a \o "'s suggested MCC" :> suggested)
  @@ (a \o "'s MCC description" :> description)
  @@ (a \o "'s confidence" :> confidence)
  @@ (a \o "'s match" :> match)

\* variant: the handler of a failed classify leaves the suggested code empty
RowWithoutSentinel(row, a, o) ==
  IF o.raised
  THEN AgentColumns(a, PyS(""), PyS(o.error), Conf(0), PyS("Error")) @@ row
  ELSE AgentColumns(a, o.result.mcc_code, PyS(o.result.mcc_description),
                    Conf(o.result.confidence),
                    IF CodesMatch(o.result.mcc_code, row["Actual MCC"])
                    THEN PyS("Yes") ELSE PyS("No")) @@ row

\* the row once agent a has answered with outcome o
RowWith(row, a, o) ==
  IF o.raised
  THEN AgentColumns(a, PyS("ERROR"), PyS(o.error), Conf(0), PyS("Error")) @@ row
  ELSE AgentColumns(a, o.result.mcc_code, PyS(o.result.mcc_description),
                    Conf(o.result.confidence),
                    IF CodesMatch(o.result.mcc_code, row["Actual MCC"])
                    THEN PyS("Yes") ELSE PyS("No")) @@ row

\* variant: the counters are updated for a call that raised as well
MetricsCountingErrors(m, a, o, actual_mcc) ==
  [m EXCEPT ![a] =
     [total |-> @.total + 1,
      correct |-> IF ~o.raised /\ CodesMatch(o.result.mcc_code, actual_mcc)
                  THEN @.correct + 1 ELSE @.correct]]

\* metrics[agent.name] once agent a has answered with outcome o
MetricsWith(m, a, o, actual_mcc) ==
  IF o.raised THEN m
  ELSE [m EXCEPT ![a] =
          [total |-> @.total + 1,
           correct |-> IF CodesMatch(o.result.mcc_code, actual_mcc)
                       THEN @.correct + 1 ELSE @.correct]]

RECURSIVE Gcd(_, _)
Gcd(a, b) == IF b = 0 THEN a ELSE Gcd(b, a % b)

\* the float correct / total, as the fraction in lowest terms
Divide(correct, total) ==
  [num |-> correct \div Gcd(correct, total),
   den |-> total \div Gcd(correct, total)]

\* the number 0
Zero == [num |-> 0, den |-> 1]

\* f"{accuracy:.2%}": the hundredths of a percent, rounded (no fraction of
\* two small ints lies half-way between two of them)
PercentText(x) ==
  LET h == (2 * 10000 * x.num + x.den) \div (2 * x.den)
  IN IntText(h \div 100) \o "." \o DigitText((h \div 10) % 10)
     \o DigitText(h % 10) \o "%"

\* performance_metrics[agent_name]
PerformanceOf(data) ==
  [accuracy |-> IF data.total > 0 THEN Divide(data.correct, data.total)
                ELSE Zero,
   correct_classifications |-> data.correct,
   total_classifications |-> data.total]

RECURSIVE SummaryColumns(_, _)
SummaryColumns(j, performance) ==
  IF j > Len(EvalAgents) THEN <<>>
  ELSE AgentColumns(EvalAgents[j], PyS(""), PyS(""), PyS(""),
                    PyS("Accuracy: "
                        \o PercentText(performance[EvalAgents[j]].accuracy)))
       @@ SummaryColumns(j + 1, performance)

SummaryRow(performance) ==
  SummaryColumns(1, performance)
  @@ [k \in {"Merchant Name", "Legal Name", "Actual MCC", "MCC Description"} |->
        IF k = "Merchant Name" THEN PyS("SUMMARY") ELSE PyS("")]

\* what read_csv raises when os.path.exists(file_path) is false
FileNotFound ==
  [type |-> "FileNotFoundError", message |-> "File not found: input_file"]

\* the handler that ends evaluate: raise Exception(error_msg)
Reraised(e) ==
  [type |-> "Exception", message |-> "Error during evaluation: " \o e.message]

\* evaluate up to the loop: read_csv, output_data = [], metrics
EvalRead ==
  /\ eval_pc = "start"
  /\ IF csv_file = NoFile
     THEN /\ eval_pc' = "raised"
          /\ eval_error' = Reraised(FileNotFound)
          /\ UNCHANGED <<input_data, output_data, metrics>>
     ELSE /\ input_data' = ReadCsv(csv_file)
          /\ output_data' = <<>>
          /\ metrics' = [a \in AgentNames |-> [correct |-> 0, total |-> 0]]
          /\ eval_pc' = "loop"
          /\ UNCHANGED eval_error
  /\ UNCHANGED <<csv_file, pass_full_data, merchant_index, agent_index,
                 output_row, classify_calls, performance_metrics,
                 output_file>>
  /\ UNCHANGED <<classify_vars, parse_vars, repeat_vars, factory_vars,
                 matheus_vars>>

\* one turn of "for merchant in input_data" that ends in continue
EvalSkip ==
  /\ eval_pc = "loop"
  /\ merchant_index <= Len(input_data)
  /\ IsSkipped(input_data[merchant_index])
  /\ merchant_index' = merchant_index + 1
  /\ UNCHANGED <<csv_file, pass_full_data, input_data, eval_pc, agent_index,
                 output_row, output_data, metrics, classify_calls,
                 performance_metrics, output_file, eval_error>>
  /\ UNCHANGED <<classify_vars, parse_vars, repeat_vars, factory_vars,
                 matheus_vars>>

\* one turn of "for agent in self.agents" for a merchant that is not skipped;
\* output_row is built before the first agent and appended after the last
EvalClassify ==
  /\ eval_pc = "loop"
  /\ merchant_index <= Len(input_data)
  /\ ~IsSkipped(input_data[merchant_index])
  /\ LET merchant == input_data[merchant_index]
         a == EvalAgents[agent_index]
         row == IF agent_index = 1 THEN BaseRow(merchant) ELSE output_row
     IN \E o \in ClassifyOutcomes :
          /\ classify_calls' =
               classify_calls
                 \o ClassifyCalls(a, merchant_index, pass_full_data, o)
          /\ metrics' = MetricsWith(metrics, a, o, row["Actual MCC"])
          /\ IF agent_index < Len(EvalAgents)
             THEN /\ output_row' = RowWith(row, a, o)
                  /\ agent_index' = agent_index + 1
                  /\ UNCHANGED <<output_data, merchant_index>>
             ELSE /\ output_data' = Append(output_data, RowWith(row, a, o))
                  /\ output_row' = Unset
                  /\ agent_index' = 1
                  /\ merchant_index' = merchant_index + 1
  /\ UNCHANGED <<csv_file, pass_full_data, input_data, eval_pc,
                 performance_metrics, output_file, eval_error>>
  /\ UNCHANGED <<classify_vars, parse_vars, repeat_vars, factory_vars,
                 matheus_vars>>

\* evaluate after the loop: performance_metrics, the summary row, write_csv
EvalFinish ==
  /\ eval_pc = "loop"
  /\ merchant_index > Len(input_data)
  /\ LET performance == [a \in AgentNames |-> PerformanceOf(metrics[a])]
     IN /\ performance_metrics' = performance
        /\ output_data' = Append(output_data, SummaryRow(performance))
        /\ output_file' = Append(output_data, SummaryRow(performance))
  /\ eval_pc' = "returned"
  /\ UNCHANGED <<csv_file, pass_full_data, input_data, merchant_index,
                 agent_index, output_row, metrics, classify_calls, eval_error>>
  /\ UNCHANGED <<classify_vars, parse_vars, repeat_vars, factory_vars,
                 matheus_vars>>

\* no table is being loaded and no alternatives are being generated
MatheusIdle ==
  /\ mcc_list_csv = Unset /\ mcc_tables = Unset /\ mcc_lists = Unset
  /\ alternatives_for = Unset /\ generated_mccs = Unset

\* no evaluation is running
EvalIdle ==
  /\ csv_file = NoFile /\ pass_full_data = FALSE
  /\ input_data = <<>> /\ eval_pc = "idle"
  /\ merchant_index = 1 /\ agent_index = 1
  /\ output_row = Unset /\ output_data = <<>>
  /\ metrics = Unset /\ classify_calls = <<>>
  /\ performance_metrics = Unset /\ output_file = Unset
  /\ eval_error = Unset

-----------------------------------------------------------------------------
(* classify: the inputs *)

PriorCodes == {Absent, "5411", "7299"}
PriorDescriptions == {Absent, "Grocery Stores, Supermarkets"}

Init ==
  /\ agent \in {"Rafa", "Matheus", "Waki"}
  /\ merchant_name \in MerchantNames
  /\ legal_name \in LegalNames
  /\ original_mcc_code \in PriorCodes
  /\ mcc_description \in PriorDescriptions
  /\ client \in BOOLEAN
  /\ pc = "start"
  /\ tier1_result = Unset
  /\ risk_tier_result = Unset
  /\ tier3_result = Unset
  /\ final_result = Unset
  /\ service_calls = <<>>
  /\ tier_log = <<>>
  /\ parse_text = Unset /\ parse_result = Unset /\ parsed = <<>>
  /\ decisions = <<>>
  /\ EvalIdle
  /\ created = <<>>
  /\ MatheusIdle

Next ==
  \/ RafaEmptyName
  \/ RafaClassifyWithOpenai
  \/ WakiClassify
  \/ MatheusEmptyName
  \/ MatheusTypeError
  \/ MatheusTier1
  \/ MatheusTierRisk
  \/ MatheusTierFull

Spec == Init /\ [][Next]_vars

-----------------------------------------------------------------------------
(* The reply parsers on their own *)

MaxReplyLines == 2

ParseAgents == {"Rafa", "Waki"}

\* the texts a parser may be handed: str of every shape over its lines, or
\* None when the reply carries no content
ParserInputs(a) ==
  IF a = "Rafa" THEN Texts(RafaLines, MaxReplyLines) \cup {NoneReply}
  ELSE Texts(WakiLines, MaxReplyLines) \cup {NoneReply}

\* RafaAgent._parse_openai_response(response_text)
RafaParse ==
  /\ agent = "Rafa" /\ parse_text # Unset /\ parse_result = Unset
  /\ parse_result' = RafaParseOpenaiResponse(parse_text)
  /\ UNCHANGED <<classify_vars, parse_text, parsed, repeat_vars, eval_vars,
                 factory_vars, matheus_vars>>

\* WakiAgent._parse_gpt_response(response_text)
WakiParse ==
  /\ agent = "Waki" /\ parse_text # Unset /\ parse_result = Unset
  /\ parse_result' = WakiParseGptResponse(parse_text)
  /\ UNCHANGED <<classify_vars, parse_text, parsed, repeat_vars, eval_vars,
                 factory_vars, matheus_vars>>

InitParse ==
  /\ agent \in ParseAgents
  /\ parse_text \in ParserInputs(agent)
  /\ parse_result = Unset /\ parsed = <<>>
  /\ merchant_name = "" /\ legal_name = None
  /\ original_mcc_code = Absent /\ mcc_description = Absent
  /\ client = FALSE
  /\ pc = "start"
  /\ tier1_result = Unset /\ risk_tier_result = Unset /\ tier3_result = Unset
  /\ final_result = Unset
  /\ service_calls = <<>> /\ tier_log = <<>>
  /\ decisions = <<>>
  /\ EvalIdle
  /\ created = <<>>
  /\ MatheusIdle

NextParse == RafaParse \/ WakiParse

SpecParse == InitParse /\ [][NextParse]_vars

-----------------------------------------------------------------------------
(* WakiAgent's parser on a reply and on the decision written out again *)

\* the numbers of alternatives the Output Format of the prompt asks for
\* ("2-3 other possible classifications")
AlternativeCounts == 2..3

\* one alternative of a reply: its line, with or without a line of
\* explanation after it
AlternativeEntries ==
  UNION {{<<l>>, <<l, "  lorem ipsum dolor">>} :
           l \in {"- 5499: Misc. Food Stores", "- 5411: Grocery Stores"}}

RECURSIVE Flatten(_)
Flatten(seqs) ==
  IF seqs = <<>> THEN <<>> ELSE Head(seqs) \o Flatten(Tail(seqs))

AlternativeSections ==
  {Flatten(e) : e \in UNION {[1..k -> AlternativeEntries] :
                               k \in AlternativeCounts}}

\* replies that follow the Output Format of the prompt: the seven sections in
\* order, each section's text on its heading's line or on the lines after it
WellFormedReplies ==
  {Text(<<"1. **Analysis**: The merchant sells groceries.">> \o an
        \o <<"2. **Industry Classification**:">> \o ind
        \o <<"3. **Primary MCC**: 5411",
             "4. **MCC Description**: Grocery Stores, Supermarkets",
             "5. **Reasoning**: The name contains grocery.">> \o re
        \o <<co, "7. **Alternative MCCs**:">> \o al) :
     an \in {<<>>, <<"Sells groceries and household goods.">>},
     ind \in {<<>>, <<"  lorem ipsum dolor">>},
     re \in {<<>>, <<"  lorem ipsum dolor">>,
              <<"The category code 5812 fits best.">>},
     co \in {"6. **Confidence**: High (95% confident)", "Confidence: 0.85",
              "Confidence: 150%"},
     al \in AlternativeSections}

RECURSIVE AlternativeLines(_)
\* the lines of the alternatives: code and description, then the explanation
AlternativeLines(alternative_mccs) ==
  IF alternative_mccs = <<>> THEN <<>>
  ELSE LET alt == Head(alternative_mccs)
       IN <<"- " \o alt.mcc_code \o ": " \o alt.mcc_description>>
          \o (IF Get(alt, "explanation", "") # ""
              THEN <<alt.explanation>> ELSE <<>>)
          \o AlternativeLines(Tail(alternative_mccs))

\* a decision written in the section format of the prompt, every text where
\* _parse_gpt_response reads it: analysis, industry and reasoning on the line
\* after the heading, code, description and confidence on the heading's line
WakiSerialize(decision) ==
  LET section(s) == IF s # "" THEN <<s>> ELSE <<>>
  IN Text(<<"1. **Analysis**:">> \o section(decision.analysis)
          \o <<"2. **Industry Classification**:">>
          \o section(decision.industry_classification)
          \o <<"3. **Primary MCC**: " \o decision.mcc_code,
               "4. **MCC Description**: " \o decision.mcc_description,
               "5. **Reasoning**:">> \o section(decision.reasoning)
          \o <<"6. **Confidence**: " \o IntText(decision.confidence)
                 \o "% confident",
               "7. **Alternative MCCs**:">>
          \o AlternativeLines(decision.alternative_mccs))

\* the decision parse_result holds is written out as a reply, to be parsed
\* again
WakiReserialize ==
  /\ agent = "Waki" /\ parse_result # Unset /\ parsed = <<>>
  /\ parsed' = Append(parsed, parse_result.result)
  /\ parse_text' = WakiSerialize(parse_result.result)
  /\ parse_result' = Unset
  /\ UNCHANGED <<classify_vars, repeat_vars, eval_vars, factory_vars,
                 matheus_vars>>

InitRoundTrip ==
  /\ agent = "Waki"
  /\ parse_text \in WellFormedReplies
  /\ parse_result = Unset /\ parsed = <<>>
  /\ merchant_name = "" /\ legal_name = None
  /\ original_mcc_code = Absent /\ mcc_description = Absent
  /\ client = FALSE
  /\ pc = "start"
  /\ tier1_result = Unset /\ risk_tier_result = Unset /\ tier3_result = Unset
  /\ final_result = Unset
  /\ service_calls = <<>> /\ tier_log = <<>>
  /\ decisions = <<>>
  /\ EvalIdle
  /\ created = <<>>
  /\ MatheusIdle

NextRoundTrip == WakiParse \/ WakiReserialize

SpecRoundTrip == InitRoundTrip /\ [][NextRoundTrip]_vars

-----------------------------------------------------------------------------
(* WakiAgent's parser on replies that list alternatives *)

MaxAlternatives == 3

\* the lines of a reply that state the confidence
ConfidenceLines ==
  {"6. **Confidence**: High (95% confident)", "Confidence: 0.85",
   "Confidence: 20%"}

\* the lines of a reply that name an alternative
ListedLines == {"- 5499: Misc. Food Stores", "- 5411: Grocery Stores"}

\* the lines of a reply that state the primary code
PrimaryLines == {"3. **Primary MCC**: 5411", "Primary MCC: 5999"}

\* replies with the primary code, the heading of the alternatives and the
\* alternatives under it, if any; the confidence is stated before the
\* heading, after the alternatives, at both places or not at all
ListedReplies ==
  {Text(<<primary>> \o before
        \o <<"7. **Alternative MCCs**:">> \o al \o after) :
     primary \in PrimaryLines,
     before \in {<<>>} \cup {<<c>> : c \in ConfidenceLines},
     after \in {<<>>} \cup {<<c>> : c \in ConfidenceLines},
     al \in UNION {[1..k -> ListedLines] : k \in 0..MaxAlternatives}}

InitListed ==
  /\ agent = "Waki"
  /\ parse_text \in ListedReplies
  /\ parse_result = Unset /\ parsed = <<>>
  /\ merchant_name = "" /\ legal_name = None
  /\ original_mcc_code = Absent /\ mcc_description = Absent
  /\ client = FALSE
  /\ pc = "start"
  /\ tier1_result = Unset /\ risk_tier_result = Unset /\ tier3_result = Unset
  /\ final_result = Unset
  /\ service_calls = <<>> /\ tier_log = <<>>
  /\ decisions = <<>>
  /\ EvalIdle
  /\ created = <<>>
  /\ MatheusIdle

NextListed == WakiParse

SpecListed == InitListed /\ [][NextListed]_vars

-----------------------------------------------------------------------------
(* The fallback classifiers run again on the same input *)

MaxRuns == 2

\* RafaAgent._fallback_classify(merchant_data)
RafaFallbackRun ==
  /\ agent = "Rafa" /\ Len(decisions) < MaxRuns
  /\ decisions' = Append(decisions,
                         RafaFallbackClassify(merchant_name, legal_name))
  /\ UNCHANGED <<classify_vars, parse_vars, eval_vars, factory_vars,
                 matheus_vars>>

\* MatheusAgent._fallback_classify(merchant_name, legal_name, **merchant_data)
MatheusFallbackRun ==
  /\ agent = "Matheus" /\ Len(decisions) < MaxRuns
  /\ decisions' = Append(decisions,
                         MatheusFallbackClassify(merchant_name,
                                                 original_mcc_code,
                                                 mcc_description))
  /\ UNCHANGED <<classify_vars, parse_vars, eval_vars, factory_vars,
                 matheus_vars>>

\* WakiAgent._fallback_classify(merchant_data)
WakiFallbackRun ==
  /\ agent = "Waki" /\ Len(decisions) < MaxRuns
  /\ decisions' = Append(decisions,
                         WakiFallbackClassify(merchant_name, legal_name,
                                              WakiOriginalMcc))
  /\ UNCHANGED <<classify_vars, parse_vars, eval_vars, factory_vars,
                 matheus_vars>>

InitFallback ==
  /\ agent \in {"Rafa", "Matheus", "Waki"}
  /\ merchant_name \in MerchantNames
  /\ legal_name \in LegalNames
  /\ original_mcc_code \in PriorCodes
  /\ mcc_description \in PriorDescriptions
  /\ client = FALSE
  /\ pc = "start"
  /\ tier1_result = Unset /\ risk_tier_result = Unset /\ tier3_result = Unset
  /\ final_result = Unset
  /\ service_calls = <<>> /\ tier_log = <<>>
  /\ parse_text = Unset /\ parse_result = Unset /\ parsed = <<>>
  /\ decisions = <<>>
  /\ EvalIdle
  /\ created = <<>>
  /\ MatheusIdle

NextFallback == RafaFallbackRun \/ MatheusFallbackRun \/ WakiFallbackRun

SpecFallback == InitFallback /\ [][NextFallback]_vars

-----------------------------------------------------------------------------
(* MCCEvaluator.evaluate on a file *)

InitEval ==
  /\ csv_file \in CsvFiles
  /\ pass_full_data \in BOOLEAN
  /\ input_data = <<>> /\ eval_pc = "start"
  /\ merchant_index = 1 /\ agent_index = 1
  /\ output_row = Unset /\ output_data = <<>>
  /\ metrics = Unset /\ classify_calls = <<>>
  /\ performance_metrics = Unset /\ output_file = Unset
  /\ eval_error = Unset
  /\ agent = "Rafa"
  /\ merchant_name = "" /\ legal_name = None
  /\ original_mcc_code = Absent /\ mcc_description = Absent
  /\ client = FALSE
  /\ pc = "idle"
  /\ tier1_result = Unset /\ risk_tier_result = Unset /\ tier3_result = Unset
  /\ final_result = Unset
  /\ service_calls = <<>> /\ tier_log = <<>>
  /\ parse_text = Unset /\ parse_result = Unset /\ parsed = <<>>
  /\ decisions = <<>>
  /\ created = <<>>
  /\ MatheusIdle

NextEval == EvalRead \/ EvalSkip \/ EvalClassify \/ EvalFinish

SpecEval == InitEval /\ [][NextEval]_vars

-----------------------------------------------------------------------------
(* AgentFactory.create_agent *)

MaxCreates == 2

\* the names create_agent may be called with
AgentTypes ==
  {"rafa", "Rafa", "RAFA", "matheus", "Matheus", "MATHEUS", "waki", "Waki",
   "WaKi", "invalid", "", " rafa", "rafaa"}

\* variant: the name is compared as it was given
LowerSkipped(agent_type) == agent_type

\* agent_type.lower()
Lower(agent_type) ==
  CASE agent_type \in {"rafa", "Rafa", "RAFA"} -> "rafa"
    [] agent_type \in {"matheus", "Matheus", "MATHEUS"} -> "matheus"
    [] agent_type \in {"waki", "Waki", "WaKi"} -> "waki"
    [] OTHER -> agent_type

\* an instance of one of the agent classes, as its constructor leaves it
NewAgent(class) ==
  [class |-> class,
   name |-> CASE class = "RafaAgent" -> "Rafa"
              [] class = "MatheusAgent" -> "Matheus"
              [] class = "WakiAgent" -> "Waki"]

\* one call of create_agent: the constructors it ran, and what it returned or
\* raised
CreateAgentCall(agent_type) ==
  LET lowered == Lower(agent_type)
      returned(class) ==
        [agent_type |-> agent_type, constructed |-> <<class>>,
         raised |-> FALSE, result |-> NewAgent(class)]
  IN CASE lowered = "rafa" -> returned("RafaAgent")
       [] lowered = "matheus" -> returned("MatheusAgent")
       [] lowered = "waki" -> returned("WakiAgent")
       [] OTHER ->
            [agent_type |-> agent_type, constructed |-> <<>>,
             raised |-> TRUE,
             result |-> [type |-> "ValueError",
                         message |-> "Unsupported agent type: " \o lowered]]

\* AgentFactory.create_agent(agent_type)
CreateAgent ==
  /\ Len(created) < MaxCreates
  /\ \E agent_type \in AgentTypes :
       created' = Append(created, CreateAgentCall(agent_type))
  /\ UNCHANGED <<classify_vars, parse_vars, repeat_vars, eval_vars,
                 matheus_vars>>

InitFactory ==
  /\ created = <<>>
  /\ MatheusIdle
  /\ agent = "Rafa"
  /\ merchant_name = "" /\ legal_name = None
  /\ original_mcc_code = Absent /\ mcc_description = Absent
  /\ client = FALSE
  /\ pc = "idle"
  /\ tier1_result = Unset /\ risk_tier_result = Unset /\ tier3_result = Unset
  /\ final_result = Unset
  /\ service_calls = <<>> /\ tier_log = <<>>
  /\ parse_text = Unset /\ parse_result = Unset /\ parsed = <<>>
  /\ decisions = <<>>
  /\ EvalIdle

NextFactory == CreateAgent

SpecFactory == InitFactory /\ [][NextFactory]_vars

-----------------------------------------------------------------------------
(* MatheusAgent's code table and the lists _prepare_mcc_data makes of it *)

\* rows that mcc_list.csv may hold
MccListRows ==
  <<[mcc |-> "5411", description |-> "Grocery Stores",
     classification |-> "approved"],
    [mcc |-> "7299", description |-> "Other Services",
     classification |-> "approved"],
    [mcc |-> "7995", description |-> "Gambling",
     classification |-> "prohibited"],
    [mcc |-> "5816", description |-> "Digital Goods",
     classification |-> "Restricted"],
    [mcc |-> "5399", description |-> "Other Retail",
     classification |-> "pre-review"]>>

\* the rows of MccListRows at the positions in S, in the order of the file
RowsAt(S) ==
  LET at == SelectSeq([i \in 1..Len(MccListRows) |-> i], LAMBDA i : i \in S)
  IN [k \in 1..Len(at) |-> MccListRows[at[k]]]

\* mcc_list.csv: absent, or some rows with or without the column
\* classification
MccListFiles ==
  {NoFile}
  \cup {[exists |-> TRUE, has_classification |-> h, rows |-> RowsAt(S)] :
          h \in BOOLEAN, S \in SUBSET (1..Len(MccListRows))}

\* row.get('classification', 'approved').lower()
Classification(file, row) ==
  IF ~file.has_classification THEN "approved"
  ELSE IF row.classification = "Restricted" THEN "restricted"
  ELSE row.classification

\* MatheusAgent._initialize_default_mcc_data
DefaultTables ==
  [mcc_data |->
     [i \in 1..Len(DefaultMccData) |->
        [mcc |-> DefaultMccData[i].mcc,
         description |-> DefaultMccData[i].description]],
   mcc_risk_levels |-> mcc_risk_levels]

\* MatheusAgent._load_mcc_data, after __init__ set mcc_data = {} and
\* mcc_risk_levels = {"default": "approved"}
LoadMccData(file) ==
  IF ~file.exists THEN DefaultTables
  ELSE [mcc_data |->
          [i \in 1..Len(file.rows) |->
             [mcc |-> file.rows[i].mcc,
              description |-> file.rows[i].description]],
        mcc_risk_levels |->
          [c \in {file.rows[i].mcc : i \in 1..Len(file.rows)} |->
             LET i == CHOOSE j \in 1..Len(file.rows) : file.rows[j].mcc = c
             IN Classification(file, file.rows[i])]
          @@ [c \in {"default"} |-> "approved"]]

\* MatheusAgent._prepare_mcc_data: the rows of the three lists
PrepareMccData(tables) ==
  LET risk_level(mcc) ==
        IF mcc \in DOMAIN tables.mcc_risk_levels
        THEN tables.mcc_risk_levels[mcc]
        ELSE tables.mcc_risk_levels["default"]
      all ==
        [i \in 1..Len(tables.mcc_data) |->
           [mcc |-> tables.mcc_data[i].mcc,
            description |-> tables.mcc_data[i].description,
            classification |-> risk_level(tables.mcc_data[i].mcc)]]
      approved == SelectSeq(all, LAMBDA r : r.classification = "approved")
  IN [limited |->
        [i \in 1..Len(approved) |->
           [mcc |-> approved[i].mcc, description |-> approved[i].description]],
      restricted |->
        SelectSeq(all, LAMBDA r : r.classification # "approved"),
      all |-> all]

\* MatheusAgent.__init__: the table is loaded
MatheusLoad ==
  /\ mcc_list_csv # Unset /\ mcc_tables = Unset
  /\ mcc_tables' = LoadMccData(mcc_list_csv)
  /\ UNCHANGED <<mcc_list_csv, mcc_lists, alternatives_for, generated_mccs>>
  /\ UNCHANGED <<classify_vars, parse_vars, repeat_vars, eval_vars,
                 factory_vars>>

\* classify: limited_mcc_list, restricted_mcc_list, all_mcc_list
MatheusPrepare ==
  /\ mcc_tables # Unset /\ mcc_lists = Unset
  /\ mcc_lists' = PrepareMccData(mcc_tables)
  /\ UNCHANGED <<mcc_list_csv, mcc_tables, alternatives_for, generated_mccs>>
  /\ UNCHANGED <<classify_vars, parse_vars, repeat_vars, eval_vars,
                 factory_vars>>

InitTables ==
  /\ mcc_list_csv \in MccListFiles
  /\ mcc_tables = Unset /\ mcc_lists = Unset
  /\ alternatives_for = Unset /\ generated_mccs = Unset
  /\ created = <<>>
  /\ agent = "Matheus"
  /\ merchant_name = "" /\ legal_name = None
  /\ original_mcc_code = Absent /\ mcc_description = Absent
  /\ client = FALSE
  /\ pc = "idle"
  /\ tier1_result = Unset /\ risk_tier_result = Unset /\ tier3_result = Unset
  /\ final_result = Unset
  /\ service_calls = <<>> /\ tier_log = <<>>
  /\ parse_text = Unset /\ parse_result = Unset /\ parsed = <<>>
  /\ decisions = <<>>
  /\ EvalIdle

NextTables == MatheusLoad \/ MatheusPrepare

SpecTables == InitTables /\ [][NextTables]_vars

-----------------------------------------------------------------------------
(* MatheusAgent.generate_alternative_mccs on its own *)

\* the primary codes the alternatives are generated for
PrimaryMccs == TableCodes(DefaultMccData)

\* self.generate_alternative_mccs(final_result['mcc_code'], merchant_name,
\* self.mcc_data)
MatheusGenerate ==
  /\ alternatives_for # Unset /\ generated_mccs = Unset
  /\ generated_mccs' =
       GenerateAlternativeMccs(alternatives_for.primary_mcc,
                               alternatives_for.merchant_name)
  /\ UNCHANGED <<mcc_list_csv, mcc_tables, mcc_lists, alternatives_for>>
  /\ UNCHANGED <<classify_vars, parse_vars, repeat_vars, eval_vars,
                 factory_vars>>

InitGenerate ==
  /\ alternatives_for \in [primary_mcc : PrimaryMccs,
                           merchant_name : ScoredNames]
  /\ generated_mccs = Unset
  /\ mcc_list_csv = Unset /\ mcc_tables = Unset /\ mcc_lists = Unset
  /\ created = <<>>
  /\ agent = "Matheus"
  /\ merchant_name = "" /\ legal_name = None
  /\ original_mcc_code = Absent /\ mcc_description = Absent
  /\ client = FALSE
  /\ pc = "idle"
  /\ tier1_result = Unset /\ risk_tier_result = Unset /\ tier3_result = Unset
  /\ final_result = Unset
  /\ service_calls = <<>> /\ tier_log = <<>>
  /\ parse_text = Unset /\ parse_result = Unset /\ parsed = <<>>
  /\ decisions = <<>>
  /\ EvalIdle

NextGenerate == MatheusGenerate

SpecGenerate == InitGenerate /\ [][NextGenerate]_vars

-----------------------------------------------------------------------------
(* Properties of MatheusAgent.classify *)

\* what tier number i reported, before classify touched it
Reported(i) == tier_log[i].reported

IsCatchAllBelowThreshold(result) ==
  /\ Get(result, "suggested_mcc", None) \in catch_all_mccs
  /\ Get(result, "confidence", 0) < 98

\* C1: in MatheusAgent.classify with a non-empty name, when the TIER_1 result
\* has is_non_descriptive = true, classify is finished after that one tier
\* (TIER_RISK and TIER_FULL are not run and no request is sent for them), the
\* decision's code is the supplied original_mcc_code and its confidence is 1.0
C1_NonDescriptiveKeepsPriorCode ==
  (/\ agent = "Matheus"
   /\ Len(tier_log) >= 1
   /\ Get(Reported(1), "is_non_descriptive", FALSE))
  => /\ pc = "done"
     /\ Len(tier_log) = 1
     /\ \A i \in 1..Len(service_calls) : service_calls[i] = "TIER_1"
     /\ risk_tier_result = Unset /\ tier3_result = Unset
     /\ original_mcc_code # Absent => final_result.mcc_code = original_mcc_code
     /\ final_result.confidence = 100

\* a service reply that calls the name non-descriptive and proposes another
\* code than the supplied one has been handled
C1_Witness ==
  /\ agent = "Matheus" /\ pc = "done" /\ client
  /\ original_mcc_code = "7299"
  /\ Len(tier_log) = 1
  /\ tier_log[1].called /\ ~tier_log[1].raised
  /\ Reported(1).is_non_descriptive
  /\ Reported(1).suggested_mcc = "5411"
  /\ Reported(1).confidence = 50
  /\ final_result.mcc_code = "7299"

\* C2: in MatheusAgent.classify, when the result of TIER_1 (whose acceptance
\* test is evaluated, i.e. the name was not judged non-descriptive) or of
\* TIER_RISK has a code in the catch-all set and a confidence below 0.98, the
\* result the acceptance test reads has requires_full_search = true whatever
\* the tier reported, and classify does not finish at that tier
C2_CatchAllOverride ==
  agent = "Matheus" =>
    /\ (/\ Len(tier_log) >= 1
        /\ ~Get(Reported(1), "is_non_descriptive", FALSE)
        /\ IsCatchAllBelowThreshold(Reported(1)))
       => /\ tier1_result.requires_full_search = TRUE
          /\ pc # "done" \/ Len(tier_log) >= 2
    /\ (/\ Len(tier_log) >= 2
        /\ IsCatchAllBelowThreshold(Reported(2)))
       => /\ risk_tier_result.requires_full_search = TRUE
          /\ pc # "done" \/ Len(tier_log) >= 3

\* both tiers reported a catch-all code with an acceptable confidence and no
\* request for a full search, and the full tier is next
C2_Witness ==
  /\ agent = "Matheus" /\ pc = "TIER_FULL"
  /\ Len(tier_log) = 2
  /\ \A i \in 1..2 :
       /\ tier_log[i].called /\ ~tier_log[i].raised
       /\ Reported(i).suggested_mcc = "7299"
       /\ Reported(i).confidence = 70
       /\ Reported(i).requires_full_search = FALSE
  /\ ~Reported(1).may_be_high_risk
  /\ ~Reported(1).is_non_descriptive

-----------------------------------------------------------------------------
(* Properties of the decision of every agent *)

IsDecided == pc = "done"

ConfidenceInRange(c) == 0 <= c /\ c <= 100

\* C3: the decision classify returns, for each of the three agents and on
\* each of its paths, has a confidence between 0 and 1 (0 and 100 hundredths)
\* and so has each of its alternatives, for every confidence value the
\* structured reply of the service may report
C3_ConfidenceInRange ==
  IsDecided =>
    /\ ConfidenceInRange(final_result.confidence)
    /\ \A i \in 1..Len(final_result.alternative_mccs) :
         ConfidenceInRange(final_result.alternative_mccs[i].confidence)

\* MatheusAgent accepted at TIER_1 a reply that reports the confidence 1.5
C3_Witness ==
  /\ agent = "Matheus" /\ IsDecided /\ client
  /\ Len(tier_log) = 1
  /\ tier_log[1].called /\ ~tier_log[1].raised
  /\ Reported(1).confidence = 150
  /\ final_result.confidence = 150

\* C4: in the decision classify returns, for each of the three agents and on
\* each of its paths (WakiAgent's reuse of the supplied original code
\* included), no alternative has the code of the decision itself
C4_NoAlternativeEqualsPrimary ==
  IsDecided =>
    \A i \in 1..Len(final_result.alternative_mccs) :
      final_result.alternative_mccs[i].mcc_code # final_result.mcc_code

\* WakiAgent without a client reused the supplied original code 7299 and
\* listed 7299 among the alternatives
C4_Witness ==
  /\ agent = "Waki" /\ IsDecided /\ ~client
  /\ original_mcc_code = "7299"
  /\ final_result.mcc_code = "7299"
  /\ \E i \in 1..Len(final_result.alternative_mccs) :
       final_result.alternative_mccs[i].mcc_code = "7299"

\* the decision classify returns for a blank name when nothing else is known
BlankNameDecision ==
  CASE agent = "Matheus" -> MatheusDefault
    [] agent = "Rafa" -> RafaDefault
    [] agent = "Waki" -> WakiFallbackClassify("", None, Absent)

\* C5: for each of the three agents, with or without a client, classify on
\* an empty or whitespace-only merchant name returns one fixed default
\* decision and sends no request to the service
C5_BlankNameDefault ==
  (IsDecided /\ IsBlank(merchant_name)) =>
    /\ service_calls = <<>>
    /\ final_result = BlankNameDecision

\* WakiAgent with a client sent a request for an empty merchant name
C5_Witness ==
  /\ agent = "Waki" /\ IsDecided /\ client
  /\ merchant_name = ""
  /\ service_calls # <<>>

-----------------------------------------------------------------------------
(* Properties of the reply parsers *)

\* the lines of RafaLines and WakiLines that hold a digit
LinesWithDigits ==
  {"  2. Suggested MCC: 5812",
   "- 5411: Grocery Stores",
   "- 5499: Misc. Food Stores",
   "1. **Analysis**: The merchant sells groceries.",
   "1. Analysis: Matches the current category.",
   "1. Analysis: The business type is ambiguous.",
   "1. Analysis: The name clearly indicates a grocery store.",
   "2. **Industry Classification**:",
   "2. Suggested MCC: 5411",
   "2. Suggested MCC: 5411 or 5812",
   "2. Suggested MCC: 7299",
   "2. Suggested MCC: N/A",
   "2. Suggested MCC: Same",
   "3. **Primary MCC**: 5411",
   "3. Suggested Description: Grocery Stores, Supermarkets",
   "4. **MCC Description**: Grocery Stores, Supermarkets",
   "5. **Reasoning**: The name contains grocery.",
   "6. **Confidence**: High (95% confident)",
   "7. **Alternative MCCs**:",
   "Confidence: 0.85",
   "Confidence: 150%",
   "Primary MCC: 54112",
   "The category code 5812 fits best."}

\* a line with no section header a parser looks for and no digit
IsGarbledLine(a, line) ==
  /\ line \notin LinesWithDigits
  /\ IF a = "Rafa" THEN LinePrefix(Strip(line)) = None
     ELSE Needles(line) = {} /\ FourDigitRuns(line) = <<>>

IsGarbled(a, text) ==
  text # NoneReply =>
    \A i \in 1..Len(text.lines) : IsGarbledLine(a, text.lines[i])

ParsedCode ==
  IF agent = "Rafa" THEN parse_result.suggested_mcc
  ELSE parse_result.result.mcc_code

\* C6: _parse_openai_response and _parse_gpt_response return normally for
\* every reply text, and for a text with no recognizable section header and
\* no digit run the code they return is 7299
C6_ParserNeverRaises ==
  parse_result # Unset =>
    /\ parse_result.returned
    /\ IsGarbled(agent, parse_text) => ParsedCode = "7299"

\* WakiAgent's parser has returned from a two-line text without header or
\* digit
C6_Witness ==
  /\ agent = "Waki"
  /\ parse_text = Text(<<"  lorem ipsum dolor", "Sells groceries and household goods.">>)
  /\ parse_result # Unset
  /\ parse_result.returned
  /\ parse_result.result.mcc_code = "7299"

-----------------------------------------------------------------------------
(* Properties of the tiers of MatheusAgent *)

DecisionFields ==
  {"mcc_code", "mcc_description", "confidence", "alternative_mccs",
   "reasoning", "industry_classification", "mcc_changed"}

RaisedTiers == {i \in 1..Len(tier_log) : tier_log[i].raised}

\* C7: in MatheusAgent.classify, when the service call of TIER_1, TIER_RISK
\* or TIER_FULL (or the handling of its reply) raises, the tier's result is
\* the fallback's result, no exception leaves classify, the escalation goes
\* on from that result (classify stops at the tier exactly when the tier's
\* acceptance test passes on it, and otherwise the next tier is run) and the
\* decision returned has a code, a description, a confidence,
\* alternatives, a rationale, an industry and the changed flag
C7_TierFailureFallsBack ==
  (agent = "Matheus" /\ RaisedTiers # {}) =>
    /\ pc \in {"TIER_RISK", "TIER_FULL", "done"}
    /\ \A i \in RaisedTiers :
         \E prior \in {Absent, original_mcc_code} :
           Reported(i) = MatheusFallbackClassify(merchant_name, prior, Absent)
    /\ 1 \in RaisedTiers =>
         (pc = "done" /\ Len(tier_log) = 1)
           <=> \/ Get(Reported(1), "is_non_descriptive", FALSE)
               \/ AcceptTier1(CatchAllOverride(Reported(1)))
    /\ 2 \in RaisedTiers =>
         (pc = "done" /\ Len(tier_log) = 2)
           <=> AcceptRiskTier(CatchAllOverride(Reported(2)))
    /\ (pc = "TIER_RISK") = (Len(tier_log) = 1 /\ ~IsDecided)
    /\ (pc = "TIER_FULL") = (Len(tier_log) = 2 /\ ~IsDecided)
    /\ IsDecided => DecisionFields \subseteq DOMAIN final_result

\* all three tiers raised and classify returned a decision
C7_Witness ==
  /\ agent = "Matheus" /\ IsDecided /\ client
  /\ Len(tier_log) = 3
  /\ RaisedTiers = {1, 2, 3}
  /\ final_result.mcc_code = "5411"

-----------------------------------------------------------------------------
(* Properties of the fallback classifiers *)

-----------------------------------------------------------------------------
(* Properties of MCCEvaluator.evaluate *)

\* an empty value: '' (the default of merchant.get) or the nan of an empty cell
IsEmptyValue(v) == v = PyS("") \/ v = NaN

\* a record with an empty merchant name or an empty actual code
HasMissingData(merchant) ==
  \/ IsEmptyValue(Get(merchant, "Merchant Name", PyS("")))
  \/ IsEmptyValue(Get(merchant, "Actual MCC code", PyS("")))

\* the merchants the loop has gone through that have no missing data
CompleteSoFar ==
  {i \in 1..Len(input_data) :
     i < merchant_index /\ ~HasMissingData(input_data[i])}

\* the rows of output_data that stand for a merchant
MerchantRows ==
  IF eval_pc = "returned" THEN SubSeq(output_data, 1, Len(output_data) - 1)
  ELSE output_data

\* C9: in evaluate, a record with an empty merchant name or an empty actual
\* code is skipped: classify is called for it on no agent, it gets no row in
\* the output and it adds to no agent's total or correct counter, so the
\* rows and every total count only the records without missing data
C9_SkipPolicy ==
  eval_pc \in {"loop", "returned"} =>
    /\ \A c \in 1..Len(classify_calls) :
         ~HasMissingData(input_data[classify_calls[c].merchant])
    /\ output_row # Unset => ~HasMissingData(input_data[merchant_index])
    /\ Len(MerchantRows) = Cardinality(CompleteSoFar)
    /\ \A a \in AgentNames :
         /\ metrics[a].total <= Cardinality(CompleteSoFar) + 1
         /\ metrics[a].correct <= metrics[a].total
         /\ eval_pc = "returned" =>
              metrics[a].total <= Cardinality(CompleteSoFar)

\* evaluate has returned for a file whose one record has a name and an empty
\* actual code, and both agents count one classification
C9_Witness ==
  /\ eval_pc = "returned"
  /\ csv_file # NoFile
  /\ csv_file.header = <<"Merchant Name", "Actual MCC code">>
  /\ csv_file.rows = <<[name |-> "City Grocery", code |-> ""]>>
  /\ input_data[1]["Actual MCC code"] = NaN
  /\ Len(classify_calls) >= 2
  /\ \A a \in AgentNames :
       performance_metrics[a].total_classifications = 1

\* the rows in which agent a has a decision (classify returned)
RowsClassified(a) ==
  {k \in 1..Len(MerchantRows) :
     MerchantRows[k][a \o "'s match"] # PyS("Error")}

\* those of them in which the decision's code is the actual code, both taken
\* through str() and strip()
RowsCorrect(a) ==
  {k \in RowsClassified(a) :
     Strip(PyStr(MerchantRows[k][a \o "'s suggested MCC"]))
       = Strip(PyStr(MerchantRows[k]["Actual MCC"]))}

\* C10: when evaluate has returned, for every agent total_classifications is
\* the number of records that were not skipped and that it classified,
\* correct_classifications is the number of those whose code equals the
\* actual code after str() and strip(), and accuracy is correct / total, and
\* 0 when total is 0; every record that is not skipped has a row
C10_Metrics ==
  eval_pc = "returned" =>
    /\ Len(MerchantRows)
         = Cardinality({i \in 1..Len(input_data) : ~IsSkipped(input_data[i])})
    /\ \A a \in AgentNames :
         LET m == performance_metrics[a]
         IN /\ m.total_classifications = Cardinality(RowsClassified(a))
            /\ m.correct_classifications = Cardinality(RowsCorrect(a))
            /\ m.accuracy.den > 0
            /\ m.accuracy.num * m.total_classifications
                 = m.correct_classifications * m.accuracy.den
            /\ m.total_classifications = 0 => m.accuracy.num = 0

\* two records, two agents, each agent right on exactly one of the two (one of
\* them only once its code is stripped), and both accuracies are 1/2
C10_Witness ==
  /\ eval_pc = "returned"
  /\ Len(input_data) = 2
  /\ Len(MerchantRows) = 2
  /\ MerchantRows[1]["Agent1's suggested MCC"] = PyS(" 5411")
  /\ MerchantRows[1]["Agent1's match"] = PyS("Yes")
  /\ MerchantRows[2]["Agent1's match"] = PyS("No")
  /\ MerchantRows[1]["Agent2's match"] = PyS("No")
  /\ MerchantRows[2]["Agent2's match"] = PyS("Yes")
  /\ \A a \in AgentNames :
       /\ performance_metrics[a].total_classifications = 2
       /\ performance_metrics[a].correct_classifications = 1
       /\ performance_metrics[a].accuracy = [num |-> 1, den |-> 2]

\* the records before record i that are not skipped
NotSkippedBefore(i) ==
  {j \in 1..Len(input_data) : j < i /\ ~IsSkipped(input_data[j])}

\* the row of record i, which is not skipped and which the loop has reached
RowOf(i) ==
  IF i < merchant_index
  THEN MerchantRows[Cardinality(NotSkippedBefore(i)) + 1]
  ELSE output_row

\* the agents that have been asked about record i
AgentsAsked(i) ==
  IF i < merchant_index THEN AgentNames
  ELSE IF i = merchant_index /\ eval_pc = "loop"
  THEN {EvalAgents[j] : j \in 1..(agent_index - 1)}
  ELSE {}

\* the calls of classify for record i and agent a that raised into the
\* handler of the agent loop
FailedCalls(i, a) ==
  {c \in 1..Len(classify_calls) :
     /\ classify_calls[c].merchant = i /\ classify_calls[c].agent = a
     /\ classify_calls[c].outcome = "Exception"}

CallsFor(i, a) ==
  {c \in 1..Len(classify_calls) :
     classify_calls[c].merchant = i /\ classify_calls[c].agent = a}

\* C12: in evaluate, for either value of pass_full_data, classify is called
\* exactly once on every agent for every record that is not skipped, and
\* never for a skipped record
C12_ClassifyOncePerRecord ==
  eval_pc \in {"loop", "returned"} =>
    \A i \in 1..Len(input_data) : \A a \in AgentNames :
      Cardinality(CallsFor(i, a))
        = IF ~IsSkipped(input_data[i]) /\ a \in AgentsAsked(i) THEN 1 ELSE 0

\* evaluate has returned with pass_full_data for one record that is not
\* skipped: the agent that takes the keyword arguments was called once, the
\* one that raises TypeError on them twice, first with and then without them
C12_Witness ==
  /\ eval_pc = "returned" /\ pass_full_data
  /\ Len(input_data) = 1 /\ ~IsSkipped(input_data[1])
  /\ Cardinality(CallsFor(1, "Agent1")) = 1
  /\ Cardinality(CallsFor(1, "Agent2")) = 2
  /\ \E c \in CallsFor(1, "Agent2") :
       /\ classify_calls[c].outcome = "TypeError"
       /\ classify_calls[c].full_data
       /\ c + 1 \in CallsFor(1, "Agent2")
       /\ ~classify_calls[c + 1].full_data

-----------------------------------------------------------------------------
(* Properties of AgentFactory.create_agent *)

\* the registry: the lower-case names and the class each one stands for
Registry ==
  [rafa |-> "RafaAgent", matheus |-> "MatheusAgent", waki |-> "WakiAgent"]

\* the spellings of a registry name in upper and lower case letters
Spellings ==
  [rafa |-> {"rafa", "Rafa", "RAFA"},
   matheus |-> {"matheus", "Matheus", "MATHEUS"},
   waki |-> {"waki", "Waki", "WaKi"}]

\* C13: create_agent matches the name against rafa, matheus and waki without
\* regard to case: for a spelling of one of them it returns an instance of
\* that name's class and constructs nothing else, and for every other name it
\* raises ValueError and constructs no agent
C13_CreateAgent ==
  \A k \in 1..Len(created) :
    LET call == created[k]
        matching == {n \in DOMAIN Registry : call.agent_type \in Spellings[n]}
    IN IF matching # {}
       THEN /\ Cardinality(matching) = 1
            /\ ~call.raised
            /\ \A n \in matching :
                 /\ call.result.class = Registry[n]
                 /\ call.constructed = <<Registry[n]>>
       ELSE /\ call.raised
            /\ call.result.type = "ValueError"
            /\ call.constructed = <<>>

\* create_agent was called with a name in mixed case and returned a
\* WakiAgent, and was called with a name outside the registry and raised
C13_Witness ==
  /\ Len(created) = 2
  /\ created[1].agent_type = "WaKi" /\ ~created[1].raised
  /\ created[1].result = [class |-> "WakiAgent", name |-> "Waki"]
  /\ created[2].agent_type = "rafaa" /\ created[2].raised
  /\ created[2].constructed = <<>>

-----------------------------------------------------------------------------
(* Properties of the calls to the text-generation service *)

\* the classification attempts of the call of classify: MatheusAgent makes
\* one per tier it runs, RafaAgent and WakiAgent one in all
Attempts ==
  IF agent = "Matheus" THEN {"TIER_1", "TIER_RISK", "TIER_FULL"}
  ELSE {"classify"}

\* the positions in tier_log of the service calls made for attempt t
CallsOfAttempt(t) ==
  {i \in 1..Len(tier_log) :
     tier_log[i].called /\ (agent = "Matheus" => tier_log[i].tier = t)}

\* what the agent's fallback classifier gives for the query
FallbackResults ==
  CASE agent = "Rafa" -> {RafaFallbackClassify(merchant_name, legal_name)}
    [] agent = "Waki" ->
         {WakiFallbackClassify(merchant_name, legal_name, WakiOriginalMcc)}
    [] agent = "Matheus" ->
         {MatheusFallbackClassify(merchant_name, original_mcc_code,
                                  mcc_description),
          MatheusFallbackClassify(merchant_name, Absent, Absent)}

\* C14: no strategy retries: one classification attempt makes at most one
\* call to the service, and when that call fails the attempt makes no
\* further call and its result is the fallback classifier's
C14_NoRetry ==
  /\ Len(service_calls) = Cardinality({i \in 1..Len(tier_log) :
                                         tier_log[i].called})
  /\ \A t \in Attempts :
       /\ Cardinality(CallsOfAttempt(t)) <= 1
       /\ \A i \in CallsOfAttempt(t) :
            tier_log[i].raised =>
              /\ \A j \in CallsOfAttempt(t) : j <= i
              /\ IF agent = "Matheus"
                 THEN tier_log[i].reported \in FallbackResults
                 ELSE pc = "done" => final_result \in FallbackResults

\* WakiAgent.classify has returned after two calls to the service: the
\* request to gpt-4o raised, the request to gpt-4 was sent next and answered,
\* and the decision is the parsed reply
C14_Witness ==
  /\ agent = "Waki" /\ pc = "done"
  /\ service_calls = <<"gpt-4o", "gpt-4">>
  /\ Len(tier_log) = 2
  /\ tier_log[1].raised /\ ~tier_log[2].raised
  /\ tier_log[2].reported # NoneReply
  /\ final_result = WakiFromReply(tier_log[2].reported)

-----------------------------------------------------------------------------
(* Properties of parsing a reply twice *)

\* the reply has been parsed, written out and parsed again
RoundTripDone == Len(parsed) = 1 /\ parse_result # Unset

\* C15: for every well-formed reply, parsing it with _parse_gpt_response,
\* writing the decision out in the same section format and parsing that
\* again gives a decision identical to the first
C15_RoundTrip ==
  RoundTripDone => parse_result.result = parsed[1]

\* a reply with a line of analysis and its reasoning on the heading's line
\* has been parsed, written out and parsed again: the first decision's
\* reasoning is made from its analysis, and the second decision's analysis
\* is no longer the first's
C15_Witness ==
  /\ RoundTripDone
  /\ parsed[1].analysis = "Sells groceries and household goods."
  /\ parsed[1].reasoning
       = "Classification based on merchant name analysis: Sells groceries and household goods."
  /\ parse_result.result.analysis # parsed[1].analysis
  /\ parse_result.result.reasoning = parsed[1].reasoning
  /\ parse_result.result.mcc_code = parsed[1].mcc_code
  /\ parse_result.result.alternative_mccs = parsed[1].alternative_mccs

-----------------------------------------------------------------------------
(* Properties of MCCEvaluator.evaluate on a file that does not exist *)

\* C16: evaluate on an input path that does not exist raises
\* FileNotFoundError, the error DataHandler.read_csv raises, and writes no
\* output file
C16_MissingFileRaisesFileNotFound ==
  (eval_pc = "raised" /\ csv_file = NoFile) =>
     /\ eval_error.type = "FileNotFoundError"
     /\ eval_error = FileNotFound
     /\ output_file = Unset

\* evaluate has ended on a path that does not exist: read_csv's
\* FileNotFoundError was caught by evaluate's own handler and a plain
\* Exception carrying its message was raised in its place; nothing is written
C16_Witness ==
  /\ eval_pc = "raised"
  /\ csv_file = NoFile
  /\ eval_error = Reraised(FileNotFound)
  /\ eval_error.type = "Exception"
  /\ eval_error.message = "Error during evaluation: File not found: input_file"
  /\ output_file = Unset
  /\ classify_calls = <<>>

-----------------------------------------------------------------------------
(* Properties of the tiers of MatheusAgent.classify *)

\* the first tier has run and did not call the name non-descriptive
DescriptiveName ==
  /\ agent = "Matheus"
  /\ Len(tier_log) >= 1
  /\ ~Get(Reported(1), "is_non_descriptive", FALSE)

\* what the claims call acceptable at the first tier, on what the tier
\* reported: the flag requires_full_search after the catch-all override is
\* the reported flag or a catch-all code with a confidence below 0.98
Tier1Acceptable ==
  /\ Reported(1).confidence >= 70
  /\ ~(Reported(1).requires_full_search \/ IsCatchAllBelowThreshold(Reported(1)))
  /\ ~Reported(1).may_be_high_risk

\* C17: in MatheusAgent.classify with a descriptive name, the result of
\* TIER_1 is the final decision (its code and confidence, no other tier run)
\* exactly when, after the catch-all override, its confidence is >= 0.7,
\* requires_full_search is false and may_be_high_risk is false; in every
\* other case TIER_RISK is the next tier and is called with TIER_1's
\* may_be_high_risk flag
C17_Tier1Acceptance ==
  DescriptiveName =>
    IF Tier1Acceptable
    THEN /\ pc = "done" /\ Len(tier_log) = 1
         /\ risk_tier_result = Unset /\ tier3_result = Unset
         /\ final_result.mcc_code = Reported(1).suggested_mcc
         /\ final_result.confidence = Reported(1).confidence
    ELSE \/ pc = "TIER_RISK" /\ Len(tier_log) = 1 /\ final_result = Unset
         \/ /\ Len(tier_log) >= 2
            /\ tier_log[2].tier = "TIER_RISK"
            /\ tier_log[2].may_be_high_risk = Reported(1).may_be_high_risk

\* the first tier reported a confident result with no request for a full
\* search but flagged the name as possibly high risk: the risk tier has run
\* and was told so
C17_Witness ==
  /\ DescriptiveName /\ client
  /\ tier_log[1].called /\ ~tier_log[1].raised
  /\ Reported(1).suggested_mcc = "5411"
  /\ Reported(1).confidence = 98
  /\ ~Reported(1).requires_full_search
  /\ Reported(1).may_be_high_risk
  /\ Len(tier_log) = 2
  /\ tier_log[2].tier = "TIER_RISK"
  /\ tier_log[2].called
  /\ tier_log[2].may_be_high_risk

\* the names of the tiers, in the order classify runs them
TierNames == <<"TIER_1", "TIER_RISK", "TIER_FULL">>

\* what the claims call acceptable at the risk tier, on what the tier
\* reported
RiskTierAcceptable ==
  /\ Reported(2).confidence >= 70
  /\ ~(Reported(2).requires_full_search \/ IsCatchAllBelowThreshold(Reported(2)))

\* the tiers run so far are the first ones of TIER_1, TIER_RISK, TIER_FULL,
\* each run once; a second tier has run only after a first tier that was
\* not accepted, a third only after a risk tier that was not accepted; and
\* classify is at the tier that follows the last one run, or finished
TiersInOrder ==
  /\ Len(tier_log) <= 3
  /\ \A i \in 1..Len(tier_log) : tier_log[i].tier = TierNames[i]
  /\ Len(tier_log) >= 2 => DescriptiveName /\ ~Tier1Acceptable
  /\ Len(tier_log) = 3 => ~RiskTierAcceptable
  /\ pc = "start" => tier_log = <<>>
  /\ pc = "TIER_RISK" => Len(tier_log) = 1
  /\ pc = "TIER_FULL" => Len(tier_log) = 2
  /\ (pc = "done" /\ Len(tier_log) = 1) =>
        ~DescriptiveName \/ Tier1Acceptable
  /\ (pc = "done" /\ Len(tier_log) = 2) => RiskTierAcceptable

\* C18: every call of MatheusAgent.classify ends in DONE (it is at one of
\* its tiers or has returned a decision, it never ends without one), after
\* at most three tiers, each run at most once, in the order TIER_1,
\* TIER_RISK, TIER_FULL: TIER_RISK only after TIER_1 has returned, TIER_FULL
\* only after a TIER_RISK that was not accepted, and no tier after a result
\* has been accepted
C18_TiersInOrderToDone ==
  agent = "Matheus" =>
    /\ pc \in {"start", "TIER_RISK", "TIER_FULL", "done"}
    /\ pc = "done" => final_result # Unset
    /\ TiersInOrder

\* classify was called with a name and with merchant data that hold
\* mcc_description: the call has ended with a TypeError, before any tier and
\* without a decision
C18_Witness ==
  /\ agent = "Matheus" /\ pc = "raised"
  /\ ~IsBlank(merchant_name)
  /\ mcc_description # Absent
  /\ tier_log = <<>> /\ service_calls = <<>>
  /\ final_result = Unset

\* C19: in MatheusAgent.classify, when TIER_RISK is run its result is the
\* final decision exactly when, after the catch-all override, its confidence
\* is >= 0.7 and requires_full_search is false; otherwise TIER_FULL is run
\* and its code and confidence are the final decision, whatever the
\* confidence and even when the code is a catch-all code
C19_RiskTierAcceptance ==
  (agent = "Matheus" /\ Len(tier_log) >= 2) =>
    IF RiskTierAcceptable
    THEN /\ pc = "done" /\ Len(tier_log) = 2
         /\ tier3_result = Unset
         /\ final_result.mcc_code = Reported(2).suggested_mcc
         /\ final_result.confidence = Reported(2).confidence
    ELSE \/ pc = "TIER_FULL" /\ Len(tier_log) = 2 /\ final_result = Unset
         \/ /\ pc = "done" /\ Len(tier_log) = 3
            /\ tier_log[3].tier = "TIER_FULL"
            /\ final_result.mcc_code = Reported(3).suggested_mcc
            /\ final_result.confidence = Reported(3).confidence

\* the risk tier reported a confident result that asks for a full search,
\* and the full tier's reply, a catch-all code with confidence 0.5, is the
\* decision
C19_Witness ==
  /\ agent = "Matheus" /\ pc = "done" /\ client
  /\ Len(tier_log) = 3
  /\ \A i \in 2..3 : tier_log[i].called /\ ~tier_log[i].raised
  /\ Reported(2).suggested_mcc = "5411"
  /\ Reported(2).confidence = 98
  /\ Reported(2).requires_full_search
  /\ Reported(3).suggested_mcc = "7299"
  /\ Reported(3).confidence = 50
  /\ final_result.mcc_code = "7299"
  /\ final_result.confidence = 50

\* some tier run for the query reported the classification as suspicious
SuspiciousAtSomeTier ==
  \E i \in 1..Len(tier_log) :
     Get(Reported(i), "suspicious_classification", FALSE)

\* C20: in MatheusAgent.classify, the suspicious flag of the final decision
\* is the logical OR of the suspicious flags reported by all the tiers that
\* were run for the query, also when the result of a tier was supplied by
\* _fallback_classify
C20_SuspiciousIsOrOfTiers ==
  (agent = "Matheus" /\ pc = "done" /\ Len(tier_log) >= 1) =>
     final_result.suspicious_classification = SuspiciousAtSomeTier

\* the first tier reported the classification as suspicious, the request of
\* the full tier raised and the fallback supplied its result: the decision is
\* not marked suspicious
C20_Witness ==
  /\ agent = "Matheus" /\ pc = "done" /\ client
  /\ Len(tier_log) = 3
  /\ tier_log[1].called /\ ~tier_log[1].raised
  /\ Reported(1).suspicious_classification
  /\ ~Reported(1).is_non_descriptive
  /\ tier_log[3].called /\ tier_log[3].raised
  /\ final_result.mcc_code = Reported(3).suggested_mcc
  /\ ~final_result.suspicious_classification

-----------------------------------------------------------------------------
(* Properties of the risk banner of MatheusAgent.classify *)

\* classify has returned the result of the risk tier
AcceptedAtRiskTier ==
  agent = "Matheus" /\ pc = "done" /\ Len(tier_log) = 2

\* the first line of the decision's analysis, of which the rationale is the
\* join, is a risk banner
BeginsWithBanner ==
  /\ final_result.analysis # <<>>
  /\ final_result.analysis[1] \in {RiskBanner(l) : l \in RiskLevels}

\* C21: in MatheusAgent.classify, when the result of TIER_RISK is accepted,
\* the final rationale begins with the risk banner exactly when the risk
\* level of the accepted code in the code table is not approved
C21_BannerFollowsCodeTable ==
  AcceptedAtRiskTier =>
    (BeginsWithBanner <=> TableRiskLevel(final_result.mcc_code) # "approved")

\* the risk tier's reply proposed 5411, a code the table holds as approved,
\* with the risk level prohibited, and was accepted: the rationale begins
\* with the banner
C21_Witness ==
  /\ AcceptedAtRiskTier /\ client
  /\ tier_log[2].called /\ ~tier_log[2].raised
  /\ Reported(2).suggested_mcc = "5411"
  /\ Reported(2).risk_level = "prohibited"
  /\ TableRiskLevel("5411") = "approved"
  /\ final_result.mcc_code = "5411"
  /\ final_result.analysis[1] = "ATTENTION: Business classified as PROHIBITED"
  /\ final_result.reasoning
       = "ATTENTION: Business classified as PROHIBITED Analysis given by the service."

-----------------------------------------------------------------------------
(* Properties of the fallback classifiers inside classify *)

\* the code table of the agent whose classify is running
AgentTable == IF agent = "Waki" THEN WakiMccData ELSE DefaultMccData

\* the query supplies a prior code that the agent's code table holds
PriorCodeInTable ==
  /\ original_mcc_code # Absent
  /\ original_mcc_code \in TableCodes(AgentTable)

\* the tiers of MatheusAgent whose result the fallback classifier supplied
FallbackTiers ==
  {i \in 1..Len(tier_log) : ~tier_log[i].called \/ tier_log[i].raised}

\* classify of RafaAgent or WakiAgent has returned the fallback
\* classifier's decision: there was no client, or the last request raised
FallbackDecided ==
  /\ agent \in {"Rafa", "Waki"} /\ pc = "done"
  /\ agent = "Rafa" => ~IsBlank(merchant_name)
  /\ ~client \/ (tier_log # <<>> /\ tier_log[Len(tier_log)].raised)

\* C22: whenever the fallback classifier of any strategy is used (no client,
\* or a call raised) for a query whose prior code the code table holds, it
\* returns that prior code with a fixed confidence between 0.60 and 0.70,
\* whatever the keywords and patterns of the name
C22_FallbackReturnsPriorCode ==
  PriorCodeInTable =>
    /\ FallbackDecided =>
         /\ final_result.mcc_code = original_mcc_code
         /\ final_result.confidence \in 60..70
    /\ agent = "Matheus" =>
         \A i \in FallbackTiers :
            /\ Reported(i).suggested_mcc = original_mcc_code
            /\ Reported(i).confidence \in 60..70

\* RafaAgent has no client and is asked about "City Grocery" with the prior
\* code 7299, which its table holds: the fallback classifier has returned
\* the code its keyword scoring found, not the prior code
C22_Witness ==
  /\ agent = "Rafa" /\ ~client /\ pc = "done"
  /\ merchant_name = "City Grocery"
  /\ original_mcc_code = "7299"
  /\ PriorCodeInTable
  /\ final_result = RafaFallbackClassify(merchant_name, legal_name)
  /\ final_result.mcc_code = "5411"
  /\ final_result.mcc_code # original_mcc_code

\* classify has returned a decision that the agent's fallback classifier
\* produced: RafaAgent's or WakiAgent's fallback decision, or MatheusAgent's
\* decision from a last tier that the fallback classifier supplied
FallbackProduced ==
  \/ FallbackDecided
  \/ /\ agent = "Matheus" /\ pc = "done"
     /\ tier_log # <<>>
     /\ Len(tier_log) \in FallbackTiers
     /\ ~Get(Reported(1), "is_non_descriptive", FALSE)

\* C23: every decision produced by the fallback classifier of any strategy
\* holds at least two alternatives, none of them with the primary code
C23_FallbackAlternatives ==
  FallbackProduced =>
    /\ Len(final_result.alternative_mccs) >= 2
    /\ \A i \in 1..Len(final_result.alternative_mccs) :
          final_result.alternative_mccs[i].mcc_code # final_result.mcc_code

\* RafaAgent has no client and is asked about "City Grocery": one code of the
\* table matches, and the decision holds the single generic alternative 7299
C23_Witness ==
  /\ agent = "Rafa" /\ ~client /\ pc = "done"
  /\ merchant_name = "City Grocery" /\ legal_name = None
  /\ FallbackProduced
  /\ final_result.mcc_code = "5411"
  /\ Len(final_result.alternative_mccs) = 1
  /\ final_result.alternative_mccs[1].mcc_code = "7299"

-----------------------------------------------------------------------------
(* Properties of the lists of _prepare_mcc_data *)

\* the codes of a list
ListCodes(list) == {list[i].mcc : i \in 1..Len(list)}

\* the risk level the loaded table gives a code
LoadedRiskLevel(mcc) ==
  IF mcc \in DOMAIN mcc_tables.mcc_risk_levels
  THEN mcc_tables.mcc_risk_levels[mcc]
  ELSE mcc_tables.mcc_risk_levels["default"]

\* C24: the lists MatheusAgent builds for the tiers partition the code table
\* by risk: the limited list of TIER_1 holds no code whose risk level is not
\* approved and no catch-all code, the list of TIER_RISK holds exactly the
\* codes whose risk level is not approved, and the list of TIER_FULL holds
\* every code of the table
C24_ListsPartitionByRisk ==
  mcc_lists # Unset =>
    /\ \A c \in ListCodes(mcc_lists.limited) :
          LoadedRiskLevel(c) = "approved" /\ c \notin catch_all_mccs
    /\ ListCodes(mcc_lists.restricted)
         = {c \in ListCodes(mcc_tables.mcc_data) :
              LoadedRiskLevel(c) # "approved"}
    /\ ListCodes(mcc_lists.all) = ListCodes(mcc_tables.mcc_data)

\* mcc_list.csv holds the approved catch-all code 7299 next to a prohibited
\* code: the limited list holds 7299, the restricted list the prohibited code
C24_Witness ==
  /\ mcc_lists # Unset
  /\ mcc_list_csv.exists /\ mcc_list_csv.has_classification
  /\ ListCodes(mcc_tables.mcc_data) = {"5411", "7299", "7995"}
  /\ "7299" \in catch_all_mccs
  /\ ListCodes(mcc_lists.limited) = {"5411", "7299"}
  /\ ListCodes(mcc_lists.restricted) = {"7995"}
  /\ Len(mcc_lists.all) = 3

-----------------------------------------------------------------------------
(* Properties of the alternatives of WakiAgent._parse_gpt_response *)

\* the number of lines of the reply that name an alternative
ListedCount ==
  Len(SelectSeq(parse_text.lines, LAMBDA l : l \in ListedLines))

\* the parser has returned the decision for a reply that lists alternatives
ListedParsed ==
  /\ agent = "Waki" /\ parse_text \in ListedReplies
  /\ parse_result # Unset /\ parse_result.returned

\* C25: the alternatives parsed from the reply have confidences that strictly
\* decrease in the order of the reply, each the confidence of the primary code
\* less 0.2 and less a further 0.1 for every alternative before it, and never
\* below 0.1
C25_AlternativeConfidences ==
  ListedParsed =>
    LET result == parse_result.result
    IN /\ \A k \in 1..ListedCount :
            result.alternative_mccs[k].confidence
              = Max(10, result.confidence - 20 - 10 * (k - 1))
       /\ \A k \in 1..(ListedCount - 1) :
            result.alternative_mccs[k].confidence
              > result.alternative_mccs[k + 1].confidence

\* the confidence 0.85 stated before two alternatives: they get 0.65 and 0.55
C25_Witness ==
  /\ ListedParsed
  /\ parse_text.lines = <<"3. **Primary MCC**: 5411", "Confidence: 0.85",
                          "7. **Alternative MCCs**:",
                          "- 5499: Misc. Food Stores",
                          "- 5411: Grocery Stores">>
  /\ parse_result.result.confidence = 85
  /\ parse_result.result.alternative_mccs[1].confidence = 65
  /\ parse_result.result.alternative_mccs[2].confidence = 55

\* WakiAgent._parse_gpt_response has returned a decision
WakiParsed ==
  agent = "Waki" /\ parse_text # Unset /\ parse_result # Unset
  /\ parse_result.returned

\* the generic alternatives for a primary code
GenericAlternatives(mcc_code) ==
  {WakiFallbackAlts(mcc_code)[k] : k \in 1..Len(WakiFallbackAlts(mcc_code))}

\* C26: whatever the reply, the decision _parse_gpt_response returns holds at
\* least two alternatives, and none of the generic alternatives appended for
\* the primary code's leading digit equals the primary code
C26_AtLeastTwoAlternatives ==
  WakiParsed =>
    LET result == parse_result.result
    IN /\ Len(result.alternative_mccs) >= 2
       /\ \A k \in 1..Len(result.alternative_mccs) :
            result.alternative_mccs[k] \in GenericAlternatives(result.mcc_code)
              => result.alternative_mccs[k].mcc_code # result.mcc_code

\* a reply with the primary code 5411 and no alternative: the two generic
\* alternatives of the leading digit 5 are appended
C26_Witness ==
  /\ WakiParsed
  /\ parse_text = Text(<<"3. **Primary MCC**: 5411",
                         "7. **Alternative MCCs**:">>)
  /\ parse_result.result.mcc_code = "5411"
  /\ parse_result.result.alternative_mccs = WakiFallbackAlts("5411")
  /\ Len(parse_result.result.alternative_mccs) = 2

-----------------------------------------------------------------------------
(* Properties of MatheusAgent.generate_alternative_mccs *)

\* C27: the alternatives generate_alternative_mccs returns have pairwise
\* distinct codes, for every primary code and merchant name
C27_AlternativesDistinct ==
  generated_mccs # Unset =>
    \A i, j \in 1..Len(generated_mccs) :
      i # j => generated_mccs[i].mcc_code # generated_mccs[j].mcc_code

\* one keyword match, topped up from the generic pool: two distinct codes
C27_Witness ==
  /\ generated_mccs # Unset
  /\ alternatives_for.merchant_name = "City Grocery"
  /\ alternatives_for.primary_mcc = "7299"
  /\ Len(generated_mccs) = 2
  /\ generated_mccs[1].mcc_code = "5411" /\ generated_mccs[1].confidence = 40
  /\ generated_mccs[2].mcc_code = "5812" /\ generated_mccs[2].confidence = 30

-----------------------------------------------------------------------------
(* Properties of MatheusAgent.classify without the service *)

\* classify of MatheusAgent has returned for a non-empty name and no client
DecidedWithoutService ==
  /\ agent = "Matheus" /\ ~client /\ pc = "done"
  /\ merchant_name # ""

\* C28: without the service every tier is served by _fallback_classify, and
\* the decision for a non-empty name has confidence at most 0.85; a name
\* without a keyword match gets confidence at most 0.50
C28_FallbackConfidenceCap ==
  DecidedWithoutService =>
    /\ final_result.confidence <= 85
    /\ NameScores[merchant_name] = <<>> => final_result.confidence <= 50

\* a name with a keyword match decided by _fallback_classify at every tier
C28_Witness ==
  /\ DecidedWithoutService
  /\ merchant_name = "City Grocery" /\ original_mcc_code = Absent
  /\ NameScores[merchant_name] # <<>>
  /\ \A i \in 1..Len(tier_log) : ~tier_log[i].called
  /\ Len(tier_log) >= 1
  /\ final_result.mcc_code = "5411"
  /\ final_result.confidence = 60

-----------------------------------------------------------------------------
(* Properties of the counters of MCCEvaluator.evaluate *)

\* the place of an agent in self.agents
AgentPlace(a) == CHOOSE j \in 1..Len(EvalAgents) : EvalAgents[j] = a

\* the records that were not skipped and that the agent's turn has been
\* taken for
ProcessedBy(a) ==
  {i \in 1..Len(input_data) :
     /\ ~IsSkipped(input_data[i])
     /\ \/ i < merchant_index
        \/ i = merchant_index /\ AgentPlace(a) < agent_index}

\* the counters of every agent are in order
CountersInOrder ==
  metrics # Unset =>
    \A a \in AgentNames :
      /\ 0 <= metrics[a].correct
      /\ metrics[a].correct <= metrics[a].total
      /\ metrics[a].total <= Cardinality(ProcessedBy(a))

\* a step in which classify was called changes the counters of the called
\* agent alone: not at all when the call raised, total by 1 and correct by 0
\* or 1 when it returned
CountersStep ==
  (metrics # Unset /\ Len(classify_calls') > Len(classify_calls)) =>
    LET call == classify_calls'[Len(classify_calls')]
    IN \A a \in AgentNames :
         IF a = call.agent /\ call.outcome = "returned"
         THEN /\ metrics'[a].total = metrics[a].total + 1
              /\ metrics'[a].correct - metrics[a].correct \in {0, 1}
         ELSE metrics'[a] = metrics[a]

\* C29: at every point of evaluate and for every agent, 0 <= correct <= total
\* <= the number of records not skipped and processed so far; a call of
\* classify that raises adds to neither counter, and one that returns adds
\* exactly 1 to total and at most 1 to correct
C29_CountersBounded == []CountersInOrder /\ [][CountersStep]_vars

\* in the loop, after a call of Agent1 that raised and one that returned the
\* actual code: its total and its correct are 1, with two records processed
C29_Witness ==
  /\ eval_pc = "loop"
  /\ \E i, j \in 1..Len(classify_calls) :
       /\ classify_calls[i].agent = "Agent1"
       /\ classify_calls[i].outcome = "Exception"
       /\ classify_calls[j].agent = "Agent1"
       /\ classify_calls[j].outcome = "returned"
  /\ metrics["Agent1"].total = 1 /\ metrics["Agent1"].correct = 1
  /\ Cardinality(ProcessedBy("Agent1")) = 2

-----------------------------------------------------------------------------
(* Properties of the primary code of the reply parsers *)

DigitChars == {"0", "1", "2", "3", "4", "5", "6", "7", "8", "9"}

\* re.findall(r'\d{4}', line) for a line of the replies
CodeRuns(line) ==
  CASE line = "2. Suggested MCC: 5411" -> <<"5411">>
  [] line = "2. Suggested MCC: 5411 or 5812" -> <<"5411", "5812">>
  [] line = "2. Suggested MCC: 7299" -> <<"7299">>
  [] line = "  2. Suggested MCC: 5812" -> <<"5812">>
  [] OTHER -> FourDigitRuns(line)

RECURSIVE RunsOfLines(_)
RunsOfLines(lines) ==
  IF lines = <<>> THEN <<>>
  ELSE CodeRuns(Head(lines)) \o RunsOfLines(Tail(lines))

\* the runs of four digits of a reply, in the order of the reply
RunsOf(text) == IF text = NoneReply THEN <<>> ELSE RunsOfLines(text.lines)

\* C30: the primary code a reply parser returns is a string of exactly four
\* digits: the first run of four digits of the reply, or 7299 when the reply
\* holds none
C30_PrimaryCodeFourDigits ==
  (parse_text # Unset /\ parse_result # Unset /\ parse_result.returned) =>
    /\ Len(Chars(ParsedCode)) = 4
    /\ \A i \in 1..Len(Chars(ParsedCode)) : Chars(ParsedCode)[i] \in DigitChars
    /\ ParsedCode = IF RunsOf(parse_text) = <<>> THEN "7299"
                    ELSE RunsOf(parse_text)[1]

\* RafaAgent's parser has returned the code of the reply's code line, and
\* WakiAgent's parser 7299 for a reply without a run of four digits
C30_Witness ==
  /\ parse_result # Unset /\ parse_result.returned
  /\ \/ /\ agent = "Rafa"
        /\ parse_text = Text(<<"1. Analysis: The business type is ambiguous.",
                               "2. Suggested MCC: 5411">>)
        /\ ParsedCode = "5411"
     \/ /\ agent = "Waki"
        /\ parse_text = Text(<<"Confidence: 0.85", "  lorem ipsum dolor">>)
        /\ ParsedCode = "7299"

====
